---- MODULE Spec2Model ----
(***************************************************************************)
(* The private-credit program (programs/private-credit): pool registry,    *)
(* loan lifecycle and attestation records, as a state machine over the     *)
(* program's accounts.  Every instruction is one action: the account       *)
(* validation of its #[derive(Accounts)] struct followed by its handler.   *)
(* A failing instruction commits nothing (the ledger reverts it); the      *)
(* variable last records which instruction ran and how it ended.           *)
(***************************************************************************)
EXTENDS Integers, Sequences, FiniteSets, TLC

VARIABLES pools, loans, attestations, declared, clock, last,
          receipts, audits, overflow_checks

vars == <<pools, loans, attestations, declared, clock, last,
          receipts, audits, overflow_checks>>

\* ------------------------------------------------------------------ bounds
\* largest u64 amount drawn as an input
MaxAmount == 2
\* longest signer / signature list drawn as an input
MaxSigners == 1
\* the ledger clock stops advancing here
MaxClock == 2

\* bits of the machine word standing for u64: every stored amount, NAV and
\* intermediate result lives in 0 .. 2^WordBits - 1
WordBits == 21

\* ------------------------------------------------------- program constants
\* calculate_nav_per_token / calculate_redemption_value: 1_000_000 (1.0 with 6
\* decimals)
NavUnit == 1000000
\* create_loan_commit: tranche <= 3
MaxTranche == 3
\* initialize_pool / update_pool_config: interest_rate_bps <= 10000
MaxBps == 10000
\* submit_attestation: weight: 1
DefaultWeight == 1

\* ------------------------------------------------------------ input domains
Pubkeys == {"k1", "k2"}
LoanIds == {"L1", "L2"}
ZeroRoot == "zero32"

Ok == "Ok"

LoanStatus ==
  {"Pending", "Approved", "Active", "Repaid", "Defaulted", "Liquidated", "Cancelled"}

AttestationType ==
  {"NavUpdate", "LoanApproval", "LoanDisbursement", "LoanRepayment",
   "CovenantBreach", "Liquidation", "AuditGrant", "EmergencyPause"}

Amounts == 0..MaxAmount
Durations == {1, 2}
Tranches == {MaxTranche, MaxTranche + 1}

\* PoolConfig: the fields the program reads (the fee, ratio, concentration,
\* credit-score and covenant fields are stored and never read).
PoolConfigInputs ==
  [max_loan_amount : {0, MaxAmount - 1, MaxAmount},
   min_loan_amount : {1, MaxAmount},
   max_loan_duration : {1},
   interest_rate_bps : {MaxBps, MaxBps + 1},
   emergency_pause : BOOLEAN]

LoanCommitInputs ==
  [loan_id : LoanIds,
   borrower_pubkey : {"k1"},
   lender_pubkey : {"k2"},
   commit_hash : {"c1"},
   amount : Amounts,
   interest_rate_bps : {500},
   duration : Durations,
   collateral_hash : {"col1"},
   tranche : Tranches,
   maturity : {9}]

\* ------------------------------------------------------------- state/pool.rs
\* a pool whose authority and escrow references are filled from the wrong accounts
PoolAccount_SwapRefs(owner, authority, receipt_mint, escrow, config, now) ==
  [owner |-> owner,
   authority |-> owner,
   receipt_mint |-> receipt_mint,
   escrow_squad_address |-> receipt_mint,
   nav_commit_root |-> ZeroRoot,
   reserved_funds |-> 0,
   total_deposits |-> 0,
   total_loans |-> 0,
   config |-> config,
   created_at |-> now,
   updated_at |-> now]

PoolAccount(owner, authority, receipt_mint, escrow, config, now) ==
  [owner |-> owner,
   authority |-> authority,
   receipt_mint |-> receipt_mint,
   escrow_squad_address |-> escrow,
   nav_commit_root |-> ZeroRoot,
   reserved_funds |-> 0,
   total_deposits |-> 0,
   total_loans |-> 0,
   config |-> config,
   created_at |-> now,
   updated_at |-> now]

\* ------------------------------------------------------ instructions/pool.rs
\* the config checks without the interest-rate ceiling
ValidPoolConfig_NoRate(c) ==
  /\ c.max_loan_amount > 0
  /\ c.min_loan_amount <= c.max_loan_amount

\* the three require! checks shared by initialize_pool and update_pool_config
ValidPoolConfig(c) ==
  /\ c.max_loan_amount > 0
  /\ c.min_loan_amount <= c.max_loan_amount
  /\ c.interest_rate_bps <= MaxBps

initialize_pool(owner, authority, receipt_mint, escrow, pool_config, now) ==
  IF ~ValidPoolConfig(pool_config)
  THEN [err |-> "InvalidPoolConfig"]
  ELSE [err |-> Ok,
        pool_account |-> PoolAccount(owner, authority, receipt_mint, escrow, pool_config, now)]

\* update_pool_config testing the pause flag of the new config
update_pool_config_NewPause(pool_account, new_config, now) ==
  IF ~ValidPoolConfig(new_config)
  THEN [err |-> "InvalidPoolConfig"]
  ELSE IF new_config.emergency_pause
  THEN [err |-> "EmergencyPauseActive"]
  ELSE [err |-> Ok,
        pool_account |-> [pool_account EXCEPT !.config = new_config, !.updated_at = now]]

update_pool_config(pool_account, new_config, now) ==
  IF ~ValidPoolConfig(new_config)
  THEN [err |-> "InvalidPoolConfig"]
  ELSE IF pool_account.config.emergency_pause
  THEN [err |-> "EmergencyPauseActive"]
  ELSE [err |-> Ok,
        pool_account |-> [pool_account EXCEPT !.config = new_config, !.updated_at = now]]

\* the pool check accepting any signer
PoolAuthorityCheck_AnySigner(pool, authority) ==
  IF pool \notin DOMAIN pools THEN "AccountNotInitialized" ELSE Ok

\* has_one = authority on an existing PoolAccount, with authority a Signer
PoolAuthorityCheck(pool, authority) ==
  IF pool \notin DOMAIN pools THEN "AccountNotInitialized"
  ELSE IF pools[pool].authority # authority THEN "UnauthorizedAccess"
  ELSE Ok

\* what last records: the instruction, the account it names, how it ended
\* (update_loan_status adds the hash of the attestation it was given,
\* verify_attestation the verdict it returned)
Result(op, key, err) == [op |-> op, key |-> key, err |-> err]

\* a write that lands on every account of the collection
Store_All(accounts, key, record) ==
  [k \in DOMAIN accounts \cup {key} |-> record]

\* a record written at an account address
Store(accounts, key, record) ==
  [k \in DOMAIN accounts \cup {key} |-> IF k = key THEN record ELSE accounts[k]]

\* struct InitializePool: pool_account is init at the address derived from
\* seeds ["pool", owner]; init fails when that address already holds an account
InitializePoolAccounts(owner) ==
  IF owner \in DOMAIN pools THEN "AccountAlreadyInUse" ELSE Ok

InitializePoolOutcome(owner, authority, receipt_mint, escrow, pool_config) ==
  LET acc == InitializePoolAccounts(owner)
  IN IF acc # Ok THEN [err |-> acc]
     ELSE initialize_pool(owner, authority, receipt_mint, escrow, pool_config, clock)

InitializePool(owner, authority, receipt_mint, escrow, pool_config) ==
  LET r == InitializePoolOutcome(owner, authority, receipt_mint, escrow, pool_config)
  IN /\ last' = Result("initialize_pool", owner, r.err)
     /\ pools' = IF r.err = Ok THEN Store(pools, owner, r.pool_account) ELSE pools
     /\ UNCHANGED <<loans, attestations, declared, clock, receipts, audits, overflow_checks>>

\* struct UpdatePoolConfig: has_one = authority
UpdatePoolConfigOutcome(authority, pool, new_config) ==
  LET acc == PoolAuthorityCheck(pool, authority)
  IN IF acc # Ok THEN [err |-> acc]
     ELSE update_pool_config(pools[pool], new_config, clock)

UpdatePoolConfig(authority, pool, new_config) ==
  LET r == UpdatePoolConfigOutcome(authority, pool, new_config)
  IN /\ last' = Result("update_pool_config", pool, r.err)
     /\ pools' = IF r.err = Ok THEN Store(pools, pool, r.pool_account) ELSE pools
     /\ UNCHANGED <<loans, attestations, declared, clock, receipts, audits, overflow_checks>>

\* keccak over the serialized payload, the nonce and the timestamp: the
\* digest is determined by exactly these three and by nothing else
calculate_attestation_hash(attestation_data) ==
  <<attestation_data.payload, attestation_data.nonce, attestation_data.timestamp>>

calculate_payload_hash(payload) == <<payload>>

\* ------------------------------------------------------------- state/loan.rs
LoanCommit(d, now) ==
  [loan_id |-> d.loan_id,
   borrower_pubkey |-> d.borrower_pubkey,
   lender_pubkey |-> d.lender_pubkey,
   commit_hash |-> d.commit_hash,
   status |-> "Pending",
   amount |-> d.amount,
   interest_rate_bps |-> d.interest_rate_bps,
   duration |-> d.duration,
   collateral_hash |-> d.collateral_hash,
   tranche |-> d.tranche,
   maturity |-> d.maturity,
   created_at |-> now,
   updated_at |-> now]

\* ------------------------------------------------------ instructions/loan.rs
\* ValidLoanCommit without the upper amount bound
ValidLoanCommit_NoMax(config, d) ==
  /\ d.amount >= config.min_loan_amount
  /\ d.duration <= config.max_loan_duration
  /\ d.tranche <= MaxTranche

\* the four require! checks of create_loan_commit
ValidLoanCommit(config, d) ==
  /\ d.amount >= config.min_loan_amount
  /\ d.amount <= config.max_loan_amount
  /\ d.duration <= config.max_loan_duration
  /\ d.tranche <= MaxTranche

create_loan_commit(pool_account, loan_commit_data, now) ==
  IF ~ValidLoanCommit(pool_account.config, loan_commit_data)
  THEN [err |-> "InvalidLoanCommit"]
  ELSE [err |-> Ok, loan_commit |-> LoanCommit(loan_commit_data, now)]

\* ValidTransition with the arm (Active, Defaulted) missing
ValidTransition_NoDefault(current_status, new_status) ==
  \/ current_status = "Pending" /\ new_status = "Approved"
  \/ current_status = "Approved" /\ new_status = "Active"
  \/ current_status = "Active" /\ new_status = "Repaid"
  \/ current_status = "Defaulted" /\ new_status = "Liquidated"
  \/ current_status = "Pending" /\ new_status = "Cancelled"

\* ValidTransition with an arm (Repaid, Active) added
ValidTransition_Reopen(current_status, new_status) ==
  \/ current_status = "Pending" /\ new_status = "Approved"
  \/ current_status = "Approved" /\ new_status = "Active"
  \/ current_status = "Active" /\ new_status = "Repaid"
  \/ current_status = "Active" /\ new_status = "Defaulted"
  \/ current_status = "Defaulted" /\ new_status = "Liquidated"
  \/ current_status = "Pending" /\ new_status = "Cancelled"
  \/ current_status = "Repaid" /\ new_status = "Active"

\* ValidTransition with an arm (Pending, Active) added
ValidTransition_SkipApproval(current_status, new_status) ==
  \/ current_status = "Pending" /\ new_status = "Approved"
  \/ current_status = "Approved" /\ new_status = "Active"
  \/ current_status = "Active" /\ new_status = "Repaid"
  \/ current_status = "Active" /\ new_status = "Defaulted"
  \/ current_status = "Defaulted" /\ new_status = "Liquidated"
  \/ current_status = "Pending" /\ new_status = "Cancelled"
  \/ current_status = "Pending" /\ new_status = "Active"

\* ValidTransition with an arm (Defaulted, Active) added
ValidTransition_Cure(current_status, new_status) ==
  \/ current_status = "Pending" /\ new_status = "Approved"
  \/ current_status = "Approved" /\ new_status = "Active"
  \/ current_status = "Active" /\ new_status = "Repaid"
  \/ current_status = "Active" /\ new_status = "Defaulted"
  \/ current_status = "Defaulted" /\ new_status = "Liquidated"
  \/ current_status = "Pending" /\ new_status = "Cancelled"
  \/ current_status = "Defaulted" /\ new_status = "Active"

\* the match on (current_status, new_status): the arms that fall through
ValidTransition(current_status, new_status) ==
  \/ current_status = "Pending" /\ new_status = "Approved"
  \/ current_status = "Approved" /\ new_status = "Active"
  \/ current_status = "Active" /\ new_status = "Repaid"
  \/ current_status = "Active" /\ new_status = "Defaulted"
  \/ current_status = "Defaulted" /\ new_status = "Liquidated"
  \/ current_status = "Pending" /\ new_status = "Cancelled"

\* The attestation argument is accepted and never read (checking its
\* signature is left as a TODO in the handler).
update_loan_status(loan_commit, loan_id, status, attestation, now) ==
  IF loan_commit.loan_id # loan_id
  THEN [err |-> "LoanNotFound"]
  ELSE IF ~ValidTransition(loan_commit.status, status)
  THEN [err |-> "InvalidLoanStatusTransition"]
  ELSE [err |-> Ok,
        loan_commit |-> [loan_commit EXCEPT !.status = status, !.updated_at = now]]

\* struct CreateLoanCommit: loan_commit is init at the address derived from
\* seeds ["loan_commit", loan_id] (fails when the address is taken), then the
\* pool's has_one = authority
\* a loan_commit account that is re-initialised when its address is in use
CreateLoanCommitAccounts_Reinit(authority, pool, loan_commit_data) ==
  PoolAuthorityCheck(pool, authority)

CreateLoanCommitAccounts(authority, pool, loan_commit_data) ==
  IF loan_commit_data.loan_id \in DOMAIN loans THEN "AccountAlreadyInUse"
  ELSE PoolAuthorityCheck(pool, authority)

CreateLoanCommitOutcome(authority, pool, loan_commit_data) ==
  LET acc == CreateLoanCommitAccounts(authority, pool, loan_commit_data)
  IN IF acc # Ok THEN [err |-> acc]
     ELSE create_loan_commit(pools[pool], loan_commit_data, clock)

CreateLoanCommit(authority, pool, loan_commit_data) ==
  LET r == CreateLoanCommitOutcome(authority, pool, loan_commit_data)
  IN /\ last' = Result("create_loan_commit", loan_commit_data.loan_id, r.err)
     /\ loans' = IF r.err = Ok
                 THEN Store(loans, loan_commit_data.loan_id, r.loan_commit)
                 ELSE loans
     /\ UNCHANGED <<pools, attestations, declared, clock, receipts, audits, overflow_checks>>

\* struct UpdateLoanStatus: an existing LoanCommit account and the pool's
\* has_one = authority.  (The has_one = authority written on loan_commit names
\* a field LoanCommit does not have; no loan field is compared.)
UpdateLoanStatusAccounts(authority, pool, loan) ==
  IF loan \notin DOMAIN loans THEN "AccountNotInitialized"
  ELSE PoolAuthorityCheck(pool, authority)

UpdateLoanStatusOutcome(authority, pool, loan, loan_id, status, attestation) ==
  LET acc == UpdateLoanStatusAccounts(authority, pool, loan)
  IN IF acc # Ok THEN [err |-> acc]
     ELSE update_loan_status(loans[loan], loan_id, status, attestation, clock)

UpdateLoanStatus(authority, pool, loan, loan_id, status, attestation) ==
  LET r == UpdateLoanStatusOutcome(authority, pool, loan, loan_id, status, attestation)
  IN /\ last' = [op |-> "update_loan_status", key |-> loan, err |-> r.err,
                 attestation |-> calculate_attestation_hash(attestation)]
     /\ loans' = IF r.err = Ok THEN Store(loans, loan, r.loan_commit) ELSE loans
     /\ UNCHANGED <<pools, attestations, declared, clock, receipts, audits, overflow_checks>>

\* ------------------------------------------------------ state/attestation.rs
\* sequences over S of length at most n
SeqsUpTo(S, n) == UNION {[1..k -> S] : k \in 0..n}

\* a signature either validates against the payload hash under its signer's
\* key, or does not
Signatures == {"good", "bad"}

AttestationPayload(variants, ids) == [variant : variants, loan_id : ids]

AttestationData(types, payloads, thresholds, nonces) ==
  [attestation_type : types,
   payload : payloads,
   signatures : SeqsUpTo(Signatures, MaxSigners),
   signer_pubkeys : SeqsUpTo({"k1"}, MaxSigners),
   threshold : thresholds,
   nonce : nonces,
   timestamp : {1}]

SignerMeta(pubkey, signature) ==
  [pubkey |-> pubkey, signature |-> signature, weight |-> DefaultWeight]

\* ----------------------------------------------- instructions/attestation.rs
Min(a, b) == IF a <= b THEN a ELSE b

\* signer_pubkeys.iter().zip(signatures.iter()).map(..).collect()
ZipSigners(signer_pubkeys, signatures) ==
  [i \in 1..Min(Len(signer_pubkeys), Len(signatures)) |->
     SignerMeta(signer_pubkeys[i], signatures[i])]

\* verify_threshold_signature accepting every signer set
verify_threshold_signature_AcceptAll(signer_meta) == TRUE

verify_threshold_signature(signer_meta) ==
  IF Len(signer_meta) = 0 THEN FALSE ELSE TRUE

submit_attestation(attestation_data, now) ==
  [err |-> Ok,
   attestation_record |->
     [attestation_hash |-> calculate_attestation_hash(attestation_data),
      signer_meta |-> ZipSigners(attestation_data.signer_pubkeys,
                                 attestation_data.signatures),
      payload_hash |-> calculate_payload_hash(attestation_data.payload),
      timestamp |-> now,
      verified |-> FALSE]]

\* verify_attestation setting the flag whatever the verdict
verify_attestation_AlwaysFlag(attestation_record, attestation_hash) ==
  LET is_valid == verify_threshold_signature(attestation_record.signer_meta)
  IN [err |-> Ok,
      ret |-> is_valid,
      attestation_record |-> [attestation_record EXCEPT !.verified = TRUE]]

verify_attestation(attestation_record, attestation_hash) ==
  LET is_valid == verify_threshold_signature(attestation_record.signer_meta)
  IN [err |-> Ok,
      ret |-> is_valid,
      attestation_record |->
        IF is_valid THEN [attestation_record EXCEPT !.verified = TRUE]
        ELSE attestation_record]

\* SubmitAttestationAccounts as init_if_needed would have it
SubmitAttestationAccounts_Reinit(seed_hash) == Ok

\* struct SubmitAttestation: attestation_record is init at the address derived
\* from seeds ["attestation", seed_hash], seed_hash being the hash the caller
\* supplies for the derivation; init fails when the address is taken
SubmitAttestationAccounts(seed_hash) ==
  IF seed_hash \in DOMAIN attestations THEN "AccountAlreadyInUse" ELSE Ok

SubmitAttestationOutcome(seed_hash, attestation_data) ==
  LET acc == SubmitAttestationAccounts(seed_hash)
  IN IF acc # Ok THEN [err |-> acc]
     ELSE submit_attestation(attestation_data, clock)

\* declared keeps, per record address, the threshold the submitted
\* AttestationData declared (the record itself does not store it)
SubmitAttestation(seed_hash, attestation_data) ==
  LET r == SubmitAttestationOutcome(seed_hash, attestation_data)
  IN /\ last' = Result("submit_attestation", seed_hash, r.err)
     /\ attestations' = IF r.err = Ok
                        THEN Store(attestations, seed_hash, r.attestation_record)
                        ELSE attestations
     /\ declared' = IF r.err = Ok
                    THEN Store(declared, seed_hash, attestation_data.threshold)
                    ELSE declared
     /\ UNCHANGED <<pools, loans, clock, receipts, audits, overflow_checks>>

\* struct VerifyAttestation: an existing record, with the constraint
\* attestation_record.attestation_hash == attestation_hash
VerifyAttestationAccounts(record, attestation_hash) ==
  IF record \notin DOMAIN attestations THEN "AccountNotInitialized"
  ELSE IF attestations[record].attestation_hash # attestation_hash
  THEN "InvalidAttestation"
  ELSE Ok

VerifyAttestationOutcome(record, attestation_hash) ==
  LET acc == VerifyAttestationAccounts(record, attestation_hash)
  IN IF acc # Ok THEN [err |-> acc, ret |-> FALSE]
     ELSE verify_attestation(attestations[record], attestation_hash)

VerifyAttestation(record, attestation_hash) ==
  LET r == VerifyAttestationOutcome(record, attestation_hash)
  IN /\ last' = [op |-> "verify_attestation", key |-> record, err |-> r.err,
                 ret |-> r.ret]
     /\ attestations' = IF r.err = Ok
                        THEN Store(attestations, record, r.attestation_record)
                        ELSE attestations
     /\ UNCHANGED <<pools, loans, declared, clock, receipts, audits, overflow_checks>>

\* ---------------------------------------------------------- u64 arithmetic
Word == 2 ^ WordBits
U64Max == Word - 1

\* checked_add / checked_sub: Some(value) or None
checked_add(a, b) == [some |-> a + b <= U64Max, value |-> (a + b) % Word]
checked_sub(a, b) == [some |-> a >= b, value |-> (a - b) % Word]

\* a * b reduced modulo the word, computed without leaving the word
RECURSIVE wrapping_mul(_, _)
wrapping_mul(a, b) ==
  IF b = 0 THEN 0
  ELSE (2 * wrapping_mul(a, b \div 2) + (b % 2) * a) % Word

\* the operators + and * on u64: the result wraps; overflow tells whether the
\* exact result left the word, in which case a build with overflow checks
\* aborts the instruction
add(a, b) == [overflow |-> a + b > U64Max, value |-> (a + b) % Word]
mul(a, b) == [overflow |-> a # 0 /\ b > U64Max \div a, value |-> wrapping_mul(a, b)]

\* how an instruction ends when the program aborts on arithmetic overflow
Panic == "Panic"

\* ---------------------------------------------------------- state/receipt.rs
\* the receipt account keyed by seeds ["receipt_token", pool, recipient]
ReceiptKey(pool, recipient) == <<pool, recipient>>

\* a ReceiptTokenAccount as init_if_needed creates it: every field zeroed
ZeroReceipt ==
  [owner |-> "default", mint |-> "default", amount |-> 0, nav_at_mint |-> 0,
   minted_at |-> 0, last_claim_at |-> 0, total_claimed |-> 0]

\* --------------------------------------------------- instructions/receipt.rs
calculate_nav_per_token(pool_account) ==
  IF pool_account.total_deposits = 0 THEN [err |-> Ok, nav |-> NavUnit]
  ELSE LET total_value == add(pool_account.total_deposits, pool_account.reserved_funds)
           product == mul(total_value.value, NavUnit)
       IN IF overflow_checks /\ (total_value.overflow \/ product.overflow)
          THEN [err |-> Panic]
          ELSE [err |-> Ok, nav |-> product.value \div pool_account.total_deposits]

calculate_redemption_value(token_amount, nav_at_mint, current_nav) ==
  LET sub == checked_sub(current_nav, nav_at_mint)
      nav_appreciation == IF sub.some THEN sub.value ELSE 0
      base == mul(token_amount, nav_at_mint)
      appreciation == mul(token_amount, nav_appreciation)
      total == add(base.value \div NavUnit, appreciation.value \div NavUnit)
  IN IF overflow_checks /\ (base.overflow \/ appreciation.overflow \/ total.overflow)
     THEN [err |-> Panic]
     ELSE [err |-> Ok, value |-> total.value]

\* mint_receipt_tokens testing the pause flag before the attestation type
mint_receipt_tokens_PauseFirst(pool_account, receipt_token_account, recipient, receipt_mint, amount, attestation, now) ==
  LET total == checked_add(pool_account.total_deposits, amount)
      held == checked_add(receipt_token_account.amount, amount)
  IN IF pool_account.config.emergency_pause THEN [err |-> "EmergencyPauseActive"]
     ELSE IF attestation.attestation_type # "NavUpdate" THEN [err |-> "InvalidAttestation"]
     ELSE IF ~total.some \/ ~held.some THEN [err |-> "InsufficientFunds"]
     ELSE [err |-> Ok,
           pool_account |-> [pool_account EXCEPT !.total_deposits = total.value],
           receipt_token_account |->
             [receipt_token_account EXCEPT !.owner = recipient, !.amount = held.value]]

\* burn_receipt_tokens without the balance check, the held amount wrapping
burn_receipt_tokens_NoBalanceCheck(pool_account, receipt_token_account, amount, attestation) ==
  LET total == checked_sub(pool_account.total_deposits, amount)
  IN IF attestation.attestation_type # "NavUpdate" THEN [err |-> "InvalidAttestation"]
     ELSE IF ~total.some THEN [err |-> "InsufficientFunds"]
     ELSE [err |-> Ok,
           pool_account |-> [pool_account EXCEPT !.total_deposits = total.value],
           receipt_token_account |->
             [receipt_token_account EXCEPT
                !.amount = (receipt_token_account.amount - amount) % Word],
           redemption_value |-> 0]

mint_receipt_tokens(pool_account, receipt_token_account, recipient, receipt_mint, amount, attestation, now) ==
  LET nav_per_token == calculate_nav_per_token(pool_account)
      total == checked_add(pool_account.total_deposits, amount)
      fresh == IF receipt_token_account.amount = 0
               THEN [receipt_token_account EXCEPT
                       !.owner = recipient, !.mint = receipt_mint,
                       !.nav_at_mint = nav_per_token.nav, !.minted_at = now,
                       !.last_claim_at = now, !.total_claimed = 0]
               ELSE receipt_token_account
      held == checked_add(fresh.amount, amount)
  IN IF attestation.attestation_type # "NavUpdate" THEN [err |-> "InvalidAttestation"]
     ELSE IF nav_per_token.err # Ok THEN [err |-> nav_per_token.err]
     ELSE IF pool_account.config.emergency_pause THEN [err |-> "EmergencyPauseActive"]
     ELSE IF ~total.some THEN [err |-> "InsufficientFunds"]
     ELSE IF ~held.some THEN [err |-> "InsufficientFunds"]
     ELSE [err |-> Ok,
           pool_account |-> [pool_account EXCEPT !.total_deposits = total.value],
           receipt_token_account |-> [fresh EXCEPT !.amount = held.value]]

\* a burn that is refused while the pool is paused, as the mint is
burn_receipt_tokens_PauseGated(pool_account, receipt_token_account, amount, attestation) ==
  LET total == checked_sub(pool_account.total_deposits, amount)
      held == checked_sub(receipt_token_account.amount, amount)
      claimed == checked_add(receipt_token_account.total_claimed, amount)
  IN IF attestation.attestation_type # "NavUpdate" THEN [err |-> "InvalidAttestation"]
     ELSE IF pool_account.config.emergency_pause THEN [err |-> "EmergencyPauseActive"]
     ELSE IF ~total.some \/ ~held.some \/ ~claimed.some THEN [err |-> "InsufficientFunds"]
     ELSE [err |-> Ok,
           pool_account |-> [pool_account EXCEPT !.total_deposits = total.value],
           receipt_token_account |->
             [receipt_token_account EXCEPT !.amount = held.value,
                                           !.total_claimed = claimed.value],
           redemption_value |-> amount]

burn_receipt_tokens(pool_account, receipt_token_account, amount, attestation) ==
  LET current_nav == calculate_nav_per_token(pool_account)
      redemption_value ==
        calculate_redemption_value(amount, receipt_token_account.nav_at_mint,
                                   current_nav.nav)
      total == checked_sub(pool_account.total_deposits, amount)
      held == checked_sub(receipt_token_account.amount, amount)
      claimed == checked_add(receipt_token_account.total_claimed,
                             redemption_value.value)
  IN IF attestation.attestation_type # "NavUpdate" THEN [err |-> "InvalidAttestation"]
     ELSE IF receipt_token_account.amount < amount THEN [err |-> "InsufficientFunds"]
     ELSE IF current_nav.err # Ok THEN [err |-> current_nav.err]
     ELSE IF redemption_value.err # Ok THEN [err |-> redemption_value.err]
     ELSE IF ~total.some THEN [err |-> "InsufficientFunds"]
     ELSE IF ~held.some THEN [err |-> "InsufficientFunds"]
     ELSE IF ~claimed.some THEN [err |-> "InsufficientFunds"]
     ELSE [err |-> Ok,
           pool_account |-> [pool_account EXCEPT !.total_deposits = total.value],
           receipt_token_account |->
             [receipt_token_account EXCEPT !.amount = held.value,
                                           !.total_claimed = claimed.value],
           redemption_value |-> redemption_value.value]

\* struct MintReceiptTokens: pool_account has_one = authority; the receipt
\* account is init_if_needed at ReceiptKey(pool, recipient)
MintReceiptTokensAccounts(authority, pool) == PoolAuthorityCheck(pool, authority)

MintReceiptTokensOutcome(authority, pool, recipient, receipt_mint, amount, attestation) ==
  LET acc == MintReceiptTokensAccounts(authority, pool)
      key == ReceiptKey(pool, recipient)
  IN IF acc # Ok THEN [err |-> acc]
     ELSE mint_receipt_tokens(pools[pool],
                              IF key \in DOMAIN receipts THEN receipts[key] ELSE ZeroReceipt,
                              recipient, receipt_mint, amount, attestation, clock)

\* mint_receipt_tokens on a ledger that keeps the account created by
\* init_if_needed when the instruction fails
MintReceiptTokens_NoRevert(authority, pool, recipient, receipt_mint, amount, attestation) ==
  LET r == MintReceiptTokensOutcome(authority, pool, recipient, receipt_mint, amount,
                                    attestation)
      key == ReceiptKey(pool, recipient)
  IN /\ last' = [op |-> "mint_receipt_tokens", key |-> pool, err |-> r.err,
                 receipt |-> key, attestation |-> calculate_attestation_hash(attestation)]
     /\ pools' = IF r.err = Ok THEN Store(pools, pool, r.pool_account) ELSE pools
     /\ receipts' = IF r.err = Ok THEN Store(receipts, key, r.receipt_token_account)
                    ELSE IF pool \in DOMAIN pools /\ key \notin DOMAIN receipts
                    THEN Store(receipts, key, ZeroReceipt)
                    ELSE receipts
     /\ UNCHANGED <<loans, attestations, declared, clock, audits, overflow_checks>>

MintReceiptTokens(authority, pool, recipient, receipt_mint, amount, attestation) ==
  LET r == MintReceiptTokensOutcome(authority, pool, recipient, receipt_mint, amount,
                                    attestation)
      key == ReceiptKey(pool, recipient)
  IN /\ last' = [op |-> "mint_receipt_tokens", key |-> pool, err |-> r.err,
                 receipt |-> key, attestation |-> calculate_attestation_hash(attestation)]
     /\ pools' = IF r.err = Ok THEN Store(pools, pool, r.pool_account) ELSE pools
     /\ receipts' = IF r.err = Ok THEN Store(receipts, key, r.receipt_token_account)
                    ELSE receipts
     /\ UNCHANGED <<loans, attestations, declared, clock, audits, overflow_checks>>

\* struct BurnReceiptTokens: pool_account has_one = authority, then
\* receipt_token_account has_one = owner; the receipt account carries no seeds
\* constraint, so any existing receipt account may be named
BurnReceiptTokensAccounts(authority, owner, pool, receipt) ==
  IF pool \notin DOMAIN pools \/ receipt \notin DOMAIN receipts
  THEN "AccountNotInitialized"
  ELSE IF pools[pool].authority # authority THEN "UnauthorizedAccess"
  ELSE IF receipts[receipt].owner # owner THEN "UnauthorizedAccess"
  ELSE Ok

BurnReceiptTokensOutcome(authority, owner, pool, receipt, amount, attestation) ==
  LET acc == BurnReceiptTokensAccounts(authority, owner, pool, receipt)
  IN IF acc # Ok THEN [err |-> acc]
     ELSE burn_receipt_tokens(pools[pool], receipts[receipt], amount, attestation)

BurnReceiptTokens(authority, owner, pool, receipt, amount, attestation) ==
  LET r == BurnReceiptTokensOutcome(authority, owner, pool, receipt, amount, attestation)
  IN /\ last' = [op |-> "burn_receipt_tokens", key |-> pool, err |-> r.err,
                 receipt |-> receipt, attestation |-> calculate_attestation_hash(attestation)]
     /\ pools' = IF r.err = Ok THEN Store(pools, pool, r.pool_account) ELSE pools
     /\ receipts' = IF r.err = Ok THEN Store(receipts, receipt, r.receipt_token_account)
                    ELSE receipts
     /\ UNCHANGED <<loans, attestations, declared, clock, audits, overflow_checks>>

\* ------------------------------------------- state/attestation.rs (audit)
AuditRequestStatus == {"Pending", "Approved", "Denied", "Expired"}

\* Option<i64>: None is the empty sequence, Some(t) the sequence <<t>>
None == <<>>
Some(t) == <<t>>

\* ----------------------------------------------------- instructions/audit.rs
calculate_permission_hash(loan_id, auditor_pubkey) == <<loan_id, auditor_pubkey>>

\* the request account keyed by seeds ["audit_request", loan_id, auditor
\* account]
AuditKey(loan_id, auditor_account) == <<loan_id, auditor_account>>

\* request_audit without the legal-order check
request_audit_NoHashCheck(requester, loan_id, auditor_pubkey, legal_order_hash, now) ==
  [err |-> Ok,
   audit_request |->
     [requester |-> requester, loan_id |-> loan_id, auditor_pubkey |-> auditor_pubkey,
      permission_hash |-> <<loan_id, auditor_pubkey>>,
      legal_order_hash |-> legal_order_hash, status |-> "Pending",
      created_at |-> now, granted_at |-> <<>>]]

request_audit(requester, loan_id, auditor_pubkey, legal_order_hash, now) ==
  IF legal_order_hash = ZeroRoot THEN [err |-> "LegalOrderVerificationFailed"]
  ELSE [err |-> Ok,
        audit_request |->
          [requester |-> requester,
           loan_id |-> loan_id,
           auditor_pubkey |-> auditor_pubkey,
           permission_hash |-> calculate_permission_hash(loan_id, auditor_pubkey),
           legal_order_hash |-> legal_order_hash,
           status |-> "Pending",
           created_at |-> now,
           granted_at |-> None]]

\* grant_audit_access without the auditor comparison
grant_audit_access_NoAuditor(audit_request, loan_id, auditor_pubkey, attestation, now) ==
  IF attestation.attestation_type # "AuditGrant" THEN [err |-> "InvalidAttestation"]
  ELSE IF audit_request.loan_id # loan_id THEN [err |-> "LoanNotFound"]
  ELSE [err |-> Ok,
        audit_request |-> [audit_request EXCEPT !.status = "Approved",
                                                !.granted_at = <<now>>]]

\* a grant that records a refusal for the wrong auditor as status Denied
grant_audit_access_Deny(audit_request, loan_id, auditor_pubkey, attestation, now) ==
  IF attestation.attestation_type # "AuditGrant" THEN [err |-> "InvalidAttestation"]
  ELSE IF audit_request.loan_id # loan_id THEN [err |-> "LoanNotFound"]
  ELSE IF audit_request.auditor_pubkey # auditor_pubkey
  THEN [err |-> Ok, audit_request |-> [audit_request EXCEPT !.status = "Denied"]]
  ELSE [err |-> Ok,
        audit_request |-> [audit_request EXCEPT !.status = "Approved",
                                                !.granted_at = Some(now)]]

grant_audit_access(audit_request, loan_id, auditor_pubkey, attestation, now) ==
  IF attestation.attestation_type # "AuditGrant" THEN [err |-> "InvalidAttestation"]
  ELSE IF audit_request.loan_id # loan_id THEN [err |-> "LoanNotFound"]
  ELSE IF audit_request.auditor_pubkey # auditor_pubkey THEN [err |-> "InvalidAuditor"]
  ELSE [err |-> Ok,
        audit_request |-> [audit_request EXCEPT !.status = "Approved",
                                                !.granted_at = Some(now)]]

\* struct RequestAudit: audit_request is init at AuditKey(loan_id, auditor
\* account); the requester is any signer
RequestAuditAccounts(request) ==
  IF request \in DOMAIN audits THEN "AccountAlreadyInUse" ELSE Ok

RequestAuditOutcome(requester, auditor_account, loan_id, auditor_pubkey, legal_order_hash) ==
  LET acc == RequestAuditAccounts(AuditKey(loan_id, auditor_account))
  IN IF acc # Ok THEN [err |-> acc]
     ELSE request_audit(requester, loan_id, auditor_pubkey, legal_order_hash, clock)

RequestAudit(requester, auditor_account, loan_id, auditor_pubkey, legal_order_hash) ==
  LET r == RequestAuditOutcome(requester, auditor_account, loan_id, auditor_pubkey,
                               legal_order_hash)
      request == AuditKey(loan_id, auditor_account)
  IN /\ last' = [op |-> "request_audit", key |-> loan_id, err |-> r.err,
                 request |-> request]
     /\ audits' = IF r.err = Ok THEN Store(audits, request, r.audit_request) ELSE audits
     /\ UNCHANGED <<pools, loans, attestations, declared, clock, receipts,
                    overflow_checks>>

\* the account checks of GrantAuditAccess without the Pending constraint
GrantAuditAccessAccounts_NoPending(authority, pool, request) ==
  IF request \notin DOMAIN audits \/ pool \notin DOMAIN pools
  THEN "AccountNotInitialized"
  ELSE IF pools[pool].authority # authority THEN "UnauthorizedAccess"
  ELSE Ok

\* struct GrantAuditAccess: the constraint on audit_request (status Pending)
\* is checked first, then has_one = authority on pool_account
GrantAuditAccessAccounts(authority, pool, request) ==
  IF request \notin DOMAIN audits \/ pool \notin DOMAIN pools
  THEN "AccountNotInitialized"
  ELSE IF audits[request].status # "Pending" THEN "AuditRequestDenied"
  ELSE IF pools[pool].authority # authority THEN "UnauthorizedAccess"
  ELSE Ok

GrantAuditAccessOutcome(authority, pool, request, loan_id, auditor_pubkey, attestation) ==
  LET acc == GrantAuditAccessAccounts(authority, pool, request)
  IN IF acc # Ok THEN [err |-> acc]
     ELSE grant_audit_access(audits[request], loan_id, auditor_pubkey, attestation, clock)

GrantAuditAccess(authority, pool, request, loan_id, auditor_pubkey, attestation) ==
  LET r == GrantAuditAccessOutcome(authority, pool, request, loan_id, auditor_pubkey,
                                   attestation)
  IN /\ last' = [op |-> "grant_audit_access", key |-> pool, err |-> r.err,
                 request |-> request,
                 attestation |-> calculate_attestation_hash(attestation)]
     /\ audits' = IF r.err = Ok THEN Store(audits, request, r.audit_request) ELSE audits
     /\ UNCHANGED <<pools, loans, attestations, declared, clock, receipts,
                    overflow_checks>>

\* the host ledger advances the clock between instructions
Tick ==
  /\ clock < MaxClock
  /\ clock' = clock + 1
  /\ last' = Result("tick", "none", Ok)
  /\ UNCHANGED <<pools, loans, attestations, declared, receipts, audits, overflow_checks>>

\* ---------------------------------------------------------- specifications
Init ==
  /\ pools = <<>>
  /\ loans = <<>>
  /\ attestations = <<>>
  /\ declared = <<>>
  /\ clock = 1
  /\ last = Result("none", "none", Ok)
  /\ receipts = <<>>
  /\ audits = <<>>
  /\ overflow_checks = TRUE

\* the same start with the build profile left open: arithmetic overflow
\* aborts the instruction (overflow-checks on) or wraps (off)
InitAnyBuild ==
  /\ pools = <<>>
  /\ loans = <<>>
  /\ attestations = <<>>
  /\ declared = <<>>
  /\ clock = 1
  /\ last = Result("none", "none", Ok)
  /\ receipts = <<>>
  /\ audits = <<>>
  /\ overflow_checks \in BOOLEAN

\* inputs of the loan lifecycle: one pool with authority k1, two callers, two
\* loan ids
PoolIds == {"k1"}
Nonces == {1, 2}
UnpausedConfigs == {c \in PoolConfigInputs : ~c.emergency_pause}
ApprovalPayloads == AttestationPayload({"LoanApproval"}, {"L1"})
NoAttestation ==
  CHOOSE a \in AttestationData({"LoanApproval"}, ApprovalPayloads, {1}, {1}) :
    Len(a.signatures) = 0 /\ Len(a.signer_pubkeys) = 0

NextLoan ==
  \/ \E owner \in PoolIds, c \in UnpausedConfigs :
       InitializePool(owner, "k1", "mint1", "squad1", c)
  \/ \E authority \in Pubkeys, pool \in PoolIds, c \in UnpausedConfigs :
       UpdatePoolConfig(authority, pool, c)
  \/ \E authority \in Pubkeys, pool \in PoolIds, d \in LoanCommitInputs :
       CreateLoanCommit(authority, pool, d)
  \/ \E authority \in Pubkeys, pool \in PoolIds, loan \in LoanIds, loan_id \in LoanIds,
        status \in LoanStatus :
       UpdateLoanStatus(authority, pool, loan, loan_id, status, NoAttestation)

SpecLoan == Init /\ [][NextLoan]_vars

\* inputs of the attestation verifier
AttInputs == AttestationData({"LoanApproval"}, ApprovalPayloads, {1}, Nonces)
AttHashes == {calculate_attestation_hash(a) : a \in AttInputs}

NextAtt ==
  \/ \E h \in AttHashes, a \in AttInputs : SubmitAttestation(h, a)
  \/ \E k \in AttHashes, h \in AttHashes : VerifyAttestation(k, h)
  \/ Tick

SpecAtt == Init /\ [][NextAtt]_vars

\* the verifier with the declared threshold varied
QuorumInputs ==
  AttestationData({"LoanApproval"}, ApprovalPayloads, {1, MaxSigners + 1}, Nonces)
QuorumHashes == {calculate_attestation_hash(a) : a \in QuorumInputs}

NextQuorum ==
  \/ \E h \in QuorumHashes, a \in QuorumInputs : SubmitAttestation(h, a)
  \/ \E k \in QuorumHashes, h \in QuorumHashes : VerifyAttestation(k, h)
  \/ Tick

SpecQuorum == Init /\ [][NextQuorum]_vars

\* one loan driven through its lifecycle while attestations are submitted and
\* verified
GateConfigs == {c \in UnpausedConfigs : ValidPoolConfig(c) /\ c.min_loan_amount = 1}
GateLoans == {d \in LoanCommitInputs : d.loan_id = "L1" /\ d.amount = 1}
GateInputs == AttestationData({"LoanApproval"}, ApprovalPayloads, {1}, {1})
GateHashes == {calculate_attestation_hash(a) : a \in GateInputs}

NextGate ==
  \/ \E c \in GateConfigs : InitializePool("k1", "k1", "mint1", "squad1", c)
  \/ \E d \in GateLoans : CreateLoanCommit("k1", "k1", d)
  \/ \E status \in LoanStatus, a \in GateInputs :
       UpdateLoanStatus("k1", "k1", "L1", "L1", status, a)
  \/ \E h \in GateHashes, a \in GateInputs : SubmitAttestation(h, a)
  \/ \E k \in GateHashes : VerifyAttestation(k, k)

SpecGate == Init /\ [][NextGate]_vars

\* the pool registry: two pool addresses, any caller, every config input
\* (valid or not, paused or not)
NextPool ==
  \/ \E owner \in Pubkeys, authority \in Pubkeys, c \in PoolConfigInputs :
       InitializePool(owner, authority, "mint1", "squad1", c)
  \/ \E authority \in Pubkeys, pool \in Pubkeys, c \in PoolConfigInputs :
       UpdatePoolConfig(authority, pool, c)

SpecPool == Init /\ [][NextPool]_vars

\* receipt tokens of one pool: two holders, the pool's authority, the pool paused or
\* not.  NavLimit is the largest total_deposits whose product with NavUnit
\* still fits the word; deposits are drawn below it, just above it and at the
\* top of the word.
NavLimit == U64Max \div NavUnit
DepositInputs == {0, 1, NavLimit + 1, U64Max}
DepositCap == NavLimit + 1
ClaimCap == MaxAmount - 1
Holders == Pubkeys
ReceiptConfigs ==
  {c \in PoolConfigInputs :
     ValidPoolConfig(c) /\ c.min_loan_amount = 1 /\ c.max_loan_amount = MaxAmount}
ReceiptAttestations ==
  {[NoAttestation EXCEPT !.attestation_type = t, !.payload.variant = t] :
     t \in {"NavUpdate", "LoanApproval"}}

\* successful mints and burns are drawn so that total_deposits and
\* total_claimed stay within DepositCap; failing calls are not restricted
WithinCap(r) ==
  r.err = Ok =>
    /\ r.pool_account.total_deposits <= DepositCap
    /\ r.receipt_token_account.total_claimed <= ClaimCap

NextReceipt ==
  \/ \E c \in ReceiptConfigs : InitializePool("k1", "k1", "mint1", "squad1", c)
  \/ \E c \in ReceiptConfigs : UpdatePoolConfig("k1", "k1", c)
  \/ \E recipient \in Holders, amount \in DepositInputs, a \in ReceiptAttestations :
       /\ WithinCap(MintReceiptTokensOutcome("k1", "k1", recipient, "mint1", amount, a))
       /\ MintReceiptTokens("k1", "k1", recipient, "mint1", amount, a)
  \/ \E owner \in Pubkeys, holder \in Holders, amount \in DepositInputs,
        a \in ReceiptAttestations :
       /\ WithinCap(BurnReceiptTokensOutcome("k1", owner, "k1",
                                             ReceiptKey("k1", holder), amount, a))
       /\ BurnReceiptTokens("k1", owner, "k1", ReceiptKey("k1", holder), amount, a)

SpecReceipt == InitAnyBuild /\ [][NextReceipt]_vars

\* receipt tokens of two pools run by the same authority, with one holder:
\* burn_receipt_tokens is given a pool and, separately, any existing receipt
\* account
CrossConfig == CHOOSE c \in ReceiptConfigs : ~c.emergency_pause
NavAttestation == CHOOSE a \in ReceiptAttestations : a.attestation_type = "NavUpdate"

NextCross ==
  \/ \E owner \in Pubkeys : InitializePool(owner, "k1", "mint1", "squad1", CrossConfig)
  \/ \E pool \in Pubkeys :
       /\ WithinCap(MintReceiptTokensOutcome("k1", pool, "k2", "mint1", 1, NavAttestation))
       /\ MintReceiptTokens("k1", pool, "k2", "mint1", 1, NavAttestation)
  \/ \E pool \in Pubkeys, receipt \in DOMAIN receipts :
       /\ WithinCap(BurnReceiptTokensOutcome("k1", receipts[receipt].owner, pool,
                                             receipt, 1, NavAttestation))
       /\ BurnReceiptTokens("k1", receipts[receipt].owner, pool, receipt, 1,
                            NavAttestation)

SpecCross == Init /\ [][NextCross]_vars

\* calculate_redemption_value on its own: token amounts below and above
\* NavLimit, NAVs around 1.0
RedeemAmounts == {0, 1, NavLimit, NavLimit + 1, 1000}
RedeemNavs == {0, NavUnit \div 2, NavUnit, NavUnit + 1, 2 * NavUnit}

CalculateRedemptionValue(token_amount, nav_at_mint, current_nav) ==
  LET r == calculate_redemption_value(token_amount, nav_at_mint, current_nav)
      args == [op |-> "calculate_redemption_value", key |-> "none", err |-> r.err,
               token_amount |-> token_amount, nav_at_mint |-> nav_at_mint,
               current_nav |-> current_nav]
  IN /\ last' = IF r.err = Ok THEN args @@ [value |-> r.value] ELSE args
     /\ UNCHANGED <<pools, loans, attestations, declared, clock, receipts, audits,
                    overflow_checks>>

NextRedeem ==
  \E token_amount \in RedeemAmounts, nav_at_mint \in RedeemNavs, current_nav \in RedeemNavs :
    CalculateRedemptionValue(token_amount, nav_at_mint, current_nav)

SpecRedeem == InitAnyBuild /\ [][NextRedeem]_vars

\* the six authority-gated instructions on one pool with authority k1, each
\* called by the authority and by another signer
AuditGrantAttestation == [NoAttestation EXCEPT !.attestation_type = "AuditGrant",
                                               !.payload.variant = "AuditGrant"]

NextAuth ==
  \/ InitializePool("k1", "k1", "mint1", "squad1", CrossConfig)
  \/ \E authority \in Pubkeys : UpdatePoolConfig(authority, "k1", CrossConfig)
  \/ \E authority \in Pubkeys, d \in GateLoans : CreateLoanCommit(authority, "k1", d)
  \/ \E authority \in Pubkeys, status \in LoanStatus :
       UpdateLoanStatus(authority, "k1", "L1", "L1", status, NoAttestation)
  \/ \E authority \in Pubkeys :
       /\ WithinCap(MintReceiptTokensOutcome(authority, "k1", "k2", "mint1", 1,
                                             NavAttestation))
       /\ MintReceiptTokens(authority, "k1", "k2", "mint1", 1, NavAttestation)
  \/ \E authority \in Pubkeys, owner \in Pubkeys :
       /\ WithinCap(BurnReceiptTokensOutcome(authority, owner, "k1",
                                             ReceiptKey("k1", "k2"), 1, NavAttestation))
       /\ BurnReceiptTokens(authority, owner, "k1", ReceiptKey("k1", "k2"), 1,
                            NavAttestation)
  \/ RequestAudit("k2", "k2", "L1", "k2", "order1")
  \/ \E authority \in Pubkeys :
       GrantAuditAccess(authority, "k1", AuditKey("L1", "k2"), "L1", "k2",
                        AuditGrantAttestation)

SpecAuth == Init /\ [][NextAuth]_vars

\* audit requests for one loan and two auditor accounts, granted through one
\* pool with authority k1, while the clock advances
LegalOrderHashes == {ZeroRoot, "order1"}
AuditAttestations == {AuditGrantAttestation, NavAttestation}
AuditKeys == {AuditKey("L1", a) : a \in Pubkeys}

NextAudit ==
  \/ InitializePool("k1", "k1", "mint1", "squad1", CrossConfig)
  \/ \E auditor_account \in Pubkeys, auditor_pubkey \in Pubkeys,
        legal_order_hash \in LegalOrderHashes :
       RequestAudit("k2", auditor_account, "L1", auditor_pubkey, legal_order_hash)
  \/ \E authority \in Pubkeys, request \in AuditKeys, loan_id \in LoanIds,
        auditor_pubkey \in Pubkeys, a \in AuditAttestations :
       GrantAuditAccess(authority, "k1", request, loan_id, auditor_pubkey, a)
  \/ Tick

SpecAudit == Init /\ [][NextAudit]_vars

\* calculate_nav_per_token on its own: deposits and reserves from zero to
\* beyond NavLimit
NavDeposits == 0..(NavLimit + 4)
NavReserves == 0..(NavLimit + 5)

CalculateNavPerToken(total_deposits, reserved_funds) ==
  LET pool_account == [PoolAccount("k1", "k1", "mint1", "squad1", CrossConfig, clock)
                         EXCEPT !.total_deposits = total_deposits,
                                !.reserved_funds = reserved_funds]
      r == calculate_nav_per_token(pool_account)
      args == [op |-> "calculate_nav_per_token", key |-> "none", err |-> r.err,
               total_deposits |-> total_deposits, reserved_funds |-> reserved_funds]
  IN /\ last' = IF r.err = Ok THEN args @@ [nav |-> r.nav] ELSE args
     /\ UNCHANGED <<pools, loans, attestations, declared, clock, receipts, audits,
                    overflow_checks>>

NextNav ==
  \E total_deposits \in NavDeposits, reserved_funds \in NavReserves :
    CalculateNavPerToken(total_deposits, reserved_funds)

SpecNav == InitAnyBuild /\ [][NextNav]_vars

\* the whole public surface on one pool: the gated instructions and
\* request_audit as above, with one attestation submitted and verified
SurfaceInputs ==
  {a \in GateInputs : Len(a.signatures) = 1 /\ Len(a.signer_pubkeys) = 1}

NextSurface ==
  \/ NextAuth
  \/ \E h \in GateHashes, a \in SurfaceInputs : SubmitAttestation(h, a)
  \/ \E k \in GateHashes : VerifyAttestation(k, k)

SpecSurface == Init /\ [][NextSurface]_vars

\* two records of every kind side by side: two pools under one authority,
\* two loans, two holders per pool, two attestation records and two audit
\* requests. Both pools are initialised first and loans can be committed at
\* any time; to keep the state space a sum rather than a product, loans leave
\* Pending only while no receipt account, attestation record or audit request
\* exists, of those three kinds only one is present in a behaviour, and a
\* pool has one token outstanding at a time.
FrameLoans ==
  {d \in LoanCommitInputs : d.amount = 1 /\ ValidLoanCommit(CrossConfig, d)
                              /\ \A e \in LoanCommitInputs :
                                   (e.amount = 1 /\ ValidLoanCommit(CrossConfig, e))
                                     => /\ d.duration <= e.duration
                                        /\ d.tranche <= e.tranche}
FrameInputs ==
  {a \in AttInputs : Len(a.signatures) = 1 /\ Len(a.signer_pubkeys) = 1}

PoolsReady == DOMAIN pools = Pubkeys
LoansQuiet == \A l \in DOMAIN loans : loans[l].status = "Pending"
NoReceipts == DOMAIN receipts = {}
NoAttestations == DOMAIN attestations = {}
NoAudits == DOMAIN audits = {}

NextFrame ==
  \/ \E owner \in Pubkeys : InitializePool(owner, "k1", "mint1", "squad1", CrossConfig)
  \/ \E pool \in Pubkeys, d \in FrameLoans :
       /\ PoolsReady
       /\ CreateLoanCommit("k1", pool, d)
  \/ \E pool \in Pubkeys, loan \in LoanIds, status \in LoanStatus :
       /\ PoolsReady /\ NoReceipts /\ NoAttestations /\ NoAudits
       /\ UpdateLoanStatus("k1", pool, loan, loan, status, NoAttestation)
  \/ \E pool \in Pubkeys, recipient \in Holders :
       /\ PoolsReady /\ LoansQuiet /\ NoAttestations /\ NoAudits
       /\ pools[pool].total_deposits = 0
       /\ MintReceiptTokens("k1", pool, recipient, "mint1", 1, NavAttestation)
  \/ \E pool \in Pubkeys, holder \in Holders :
       /\ PoolsReady /\ LoansQuiet /\ NoAttestations /\ NoAudits
       /\ WithinCap(BurnReceiptTokensOutcome("k1", holder, pool,
                                             ReceiptKey(pool, holder), 1, NavAttestation))
       /\ BurnReceiptTokens("k1", holder, pool, ReceiptKey(pool, holder), 1,
                            NavAttestation)
  \/ \E a \in FrameInputs :
       /\ PoolsReady /\ LoansQuiet /\ NoReceipts /\ NoAudits
       /\ SubmitAttestation(calculate_attestation_hash(a), a)
  \/ \E k \in AttHashes :
       /\ PoolsReady /\ LoansQuiet /\ NoReceipts /\ NoAudits
       /\ VerifyAttestation(k, k)
  \/ \E auditor \in Pubkeys :
       /\ PoolsReady /\ LoansQuiet /\ NoReceipts /\ NoAttestations
       /\ RequestAudit("k2", auditor, "L1", auditor, "order1")
  \/ \E pool \in Pubkeys, request \in AuditKeys, auditor \in Pubkeys :
       /\ PoolsReady /\ LoansQuiet /\ NoReceipts /\ NoAttestations
       /\ GrantAuditAccess("k1", pool, request, "L1", auditor, AuditGrantAttestation)

SpecFrame == Init /\ [][NextFrame]_vars

\* the life of one pool: initialised with any owner, authority, receipt mint
\* and escrow, then reconfigured, deposited into and redeemed from while the
\* clock advances
ReceiptMints == {"mint1", "mint2"}
Escrows == {"squad1", "squad2"}

NextRefs ==
  \/ \E owner \in Pubkeys, authority \in Pubkeys, receipt_mint \in ReceiptMints,
        escrow \in Escrows :
       /\ DOMAIN pools \subseteq {owner}
       /\ InitializePool(owner, authority, receipt_mint, escrow, CrossConfig)
  \/ \E authority \in Pubkeys, pool \in DOMAIN pools, c \in ReceiptConfigs :
       UpdatePoolConfig(authority, pool, c)
  \/ \E authority \in Pubkeys, pool \in DOMAIN pools :
       /\ pools[pool].total_deposits = 0
       /\ MintReceiptTokens(authority, pool, "k2", pools[pool].receipt_mint, 1,
                            NavAttestation)
  \/ \E authority \in Pubkeys, pool \in DOMAIN pools :
       /\ WithinCap(BurnReceiptTokensOutcome(authority, "k2", pool,
                                             ReceiptKey(pool, "k2"), 1, NavAttestation))
       /\ BurnReceiptTokens(authority, "k2", pool, ReceiptKey(pool, "k2"), 1,
                            NavAttestation)
  \/ Tick

SpecRefs == Init /\ [][NextRefs]_vars

\* ------------------------------------------------------------------ claims
\* the six edges of the loan lifecycle, as the design lists them
PermittedEdges ==
  {<<"Pending", "Approved">>, <<"Approved", "Active">>, <<"Active", "Repaid">>,
   <<"Active", "Defaulted">>, <<"Defaulted", "Liquidated">>, <<"Pending", "Cancelled">>}

TerminalStatuses == {"Repaid", "Liquidated", "Cancelled"}

\* C1, for every call: in every reachable state, for every loan, every
\* requested status t and every pool whose authority makes the call with the
\* loan's own id, update_loan_status ends Ok with status t stored when
\* (current status, t) is one of the six edges, and ends
\* InvalidLoanStatusTransition otherwise.
C1_EveryCall ==
  \A l \in DOMAIN loans, pool \in DOMAIN pools, t \in LoanStatus :
    LET r == UpdateLoanStatusOutcome(pools[pool].authority, pool, l, loans[l].loan_id,
                                     t, NoAttestation)
    IN IF <<loans[l].status, t>> \in PermittedEdges
       THEN r.err = Ok /\ r.loan_commit.status = t
       ELSE r.err = "InvalidLoanStatusTransition"

\* C1, for every step: an update_loan_status that fails leaves all loans as
\* they were, and one that succeeds moves the named loan along one of the six
\* edges and changes the status of no other loan.
C1_EveryStep ==
  last'.op = "update_loan_status" =>
    IF last'.err = Ok
    THEN /\ <<loans[last'.key].status, loans'[last'.key].status>> \in PermittedEdges
         /\ \A l \in DOMAIN loans : l # last'.key => loans'[l] = loans[l]
    ELSE loans' = loans

\* C1: update_loan_status fails with InvalidLoanStatusTransition and keeps
\* the stored status for every pair outside the six edges, and succeeds and
\* stores t for each of the six edges (called by the authority with the
\* matching loan id).
C1_TransitionGraph == [](C1_EveryCall) /\ [][C1_EveryStep]_vars

\* C1 witness: a loan that walked Pending, Approved, Active, Defaulted,
\* Liquidated has just had a further transition refused.
C1_Witness ==
  /\ last.op = "update_loan_status"
  /\ last.err = "InvalidLoanStatusTransition"
  /\ last.key \in DOMAIN loans
  /\ loans[last.key].status = "Liquidated"

\* C3: Repaid, Liquidated and Cancelled are terminal: a loan whose stored
\* status is one of them keeps its record's status in every later state.
C3_TerminalAbsorbing ==
  [][\A l \in DOMAIN loans :
       loans[l].status \in TerminalStatuses =>
         l \in DOMAIN loans' /\ loans'[l].status = loans[l].status]_vars

\* C3 witness: an update_loan_status was attempted on a Repaid loan while the
\* other loan is Cancelled.
C3_Witness ==
  /\ last.op = "update_loan_status"
  /\ last.err = "InvalidLoanStatusTransition"
  /\ DOMAIN loans = LoanIds
  /\ loans[last.key].status = "Repaid"
  /\ \E l \in LoanIds : loans[l].status = "Cancelled"

\* C4, the scenario: from Pending, update_loan_status to Active fails with
\* InvalidLoanStatusTransition, to Approved succeeds, and the loan so approved
\* is then accepted for Active.
C4_Scenario ==
  \A l \in DOMAIN loans, pool \in DOMAIN pools :
    loans[l].status = "Pending" =>
      LET auth == pools[pool].authority
          id == loans[l].loan_id
          toActive == UpdateLoanStatusOutcome(auth, pool, l, id, "Active", NoAttestation)
          toApproved == UpdateLoanStatusOutcome(auth, pool, l, id, "Approved", NoAttestation)
      IN /\ toActive.err = "InvalidLoanStatusTransition"
         /\ toApproved.err = Ok
         /\ toApproved.loan_commit.status = "Approved"
         /\ update_loan_status(toApproved.loan_commit, id, "Active", NoAttestation,
                               clock).err = Ok

\* C4, the order: a loan is created Pending, and a loan that is Active in the
\* state after a step was Approved or Active in the state before it.
C4_Order ==
  \A l \in DOMAIN loans' :
    /\ l \notin DOMAIN loans => loans'[l].status = "Pending"
    /\ loans'[l].status = "Active" =>
         l \in DOMAIN loans /\ loans[l].status \in {"Approved", "Active"}

\* C4: a loan can be Active only after it has been Approved.
C4_ActiveOnlyAfterApproved == [](C4_Scenario) /\ [][C4_Order]_vars

\* C4 witness: a loan has just been moved to Active.
C4_Witness ==
  /\ last.op = "update_loan_status"
  /\ last.err = Ok
  /\ loans[last.key].status = "Active"

\* the loan parameters the design accepts for a pool configuration
WithinPoolLimits(config, d) ==
  /\ d.amount \in config.min_loan_amount .. config.max_loan_amount
  /\ d.duration <= config.max_loan_duration
  /\ d.tranche \in 0..3

\* C5, for every call: in every reachable state, for every pool, called by
\* its authority with an unused loan id, create_loan_commit ends Ok with a
\* Pending record of the given id exactly when the parameters are within the
\* limits of the pool's current config, and ends InvalidLoanCommit otherwise.
C5_EveryCall ==
  \A pool \in DOMAIN pools, d \in LoanCommitInputs :
    d.loan_id \notin DOMAIN loans =>
      LET r == CreateLoanCommitOutcome(pools[pool].authority, pool, d)
      IN IF WithinPoolLimits(pools[pool].config, d)
         THEN /\ r.err = Ok
              /\ r.loan_commit.status = "Pending"
              /\ r.loan_commit.loan_id = d.loan_id
              /\ r.loan_commit.amount = d.amount
         ELSE r.err = "InvalidLoanCommit"

\* C5, for every step: a create_loan_commit that fails creates no loan record
\* and changes none; one that succeeds adds exactly the named record, Pending
\* and within the limits of the config of some existing pool.
C5_EveryStep ==
  last'.op = "create_loan_commit" =>
    IF last'.err = Ok
    THEN /\ last'.key \notin DOMAIN loans
         /\ DOMAIN loans' = DOMAIN loans \cup {last'.key}
         /\ loans'[last'.key].status = "Pending"
         /\ \E pool \in DOMAIN pools :
              WithinPoolLimits(pools[pool].config, loans'[last'.key])
         /\ \A l \in DOMAIN loans : loans'[l] = loans[l]
    ELSE loans' = loans

\* C5: create_loan_commit succeeds exactly when amount, duration and tranche
\* are within the pool's current limits, fails with InvalidLoanCommit
\* otherwise without creating a record, and on success stores status Pending.
C5_CreateLoanCommit == [](C5_EveryCall) /\ [][C5_EveryStep]_vars

\* C5 witness: a create_loan_commit has just failed with InvalidLoanCommit for
\* an id that has no record, while an earlier one succeeded and is Pending.
C5_Witness ==
  /\ last.op = "create_loan_commit"
  /\ last.err = "InvalidLoanCommit"
  /\ last.key \notin DOMAIN loans
  /\ \E l \in DOMAIN loans : loans[l].status = "Pending"
\* C2: update_loan_status changes a loan's status along an edge other than
\* Pending->Cancelled only when the attestation it was given has a record that
\* verify_attestation marked verified.
C2_AttestationGated ==
  [][(last'.op = "update_loan_status" /\ last'.err = Ok
        /\ loans'[last'.key].status # "Cancelled") =>
       \E k \in DOMAIN attestations :
         /\ attestations[k].attestation_hash = last'.attestation
         /\ attestations[k].verified]_vars

\* the summed weight of the first n signers whose signature validates
RECURSIVE ValidWeight(_, _)
ValidWeight(signer_meta, n) ==
  IF n = 0 THEN 0
  ELSE ValidWeight(signer_meta, n - 1)
       + (IF signer_meta[n].signature = "good" THEN signer_meta[n].weight ELSE 0)

\* C6: a record is marked verified only if the summed weight of its signers
\* whose signatures validate meets the threshold its attestation declared.
C6_ThresholdMet ==
  \A k \in DOMAIN attestations :
    attestations[k].verified =>
      ValidWeight(attestations[k].signer_meta, Len(attestations[k].signer_meta))
        >= declared[k]

\* C7: a record whose stored signer set is empty is never verified:
\* verify_attestation on it returns false and leaves the record as it is; and
\* the signer set stored for an attestation is empty whenever its signer
\* addresses or its signatures are.
C7_EmptySignersNeverVerified ==
  /\ \A k \in DOMAIN attestations :
       Len(attestations[k].signer_meta) = 0 =>
         /\ ~attestations[k].verified
         /\ \A h \in AttHashes :
              LET r == VerifyAttestationOutcome(k, h)
              IN /\ ~r.ret
                 /\ r.err = Ok => r.attestation_record = attestations[k]
  /\ \A a \in AttInputs, h \in AttHashes :
       LET r == SubmitAttestationOutcome(h, a)
       IN (r.err = Ok /\ (Len(a.signer_pubkeys) = 0 \/ Len(a.signatures) = 0)) =>
            Len(r.attestation_record.signer_meta) = 0

\* C7 witness: verify_attestation has just returned false for a record with
\* no signers, after an earlier call on it.
C7_Witness ==
  /\ last.op = "verify_attestation"
  /\ last.err = Ok
  /\ ~last.ret
  /\ Len(attestations[last.key].signer_meta) = 0
  /\ ~attestations[last.key].verified
  /\ attestations[last.key].timestamp < clock

\* C8, for every step: a verify_attestation that returns true changes the
\* named record in its verified flag only, setting it; one that returns false
\* completes without error and leaves the record unverified and unchanged; one
\* that fails changes nothing; no other record is touched.
C8_EveryStep ==
  last'.op = "verify_attestation" =>
    IF last'.err = Ok
    THEN LET old == attestations[last'.key]
             new == attestations'[last'.key]
         IN /\ DOMAIN attestations' = DOMAIN attestations
            /\ \A k \in DOMAIN attestations : k # last'.key =>
                 attestations'[k] = attestations[k]
            /\ IF last'.ret
               THEN new = [old EXCEPT !.verified = TRUE]
               ELSE new = old /\ ~new.verified
    ELSE /\ attestations' = attestations
         /\ last'.err \in {"InvalidAttestation", "AccountNotInitialized"}

\* C8, the verdict: it is the same for equal stored records, whatever the
\* address and the hash argument.
C8_Verdict ==
  \A k1 \in DOMAIN attestations, k2 \in DOMAIN attestations :
    attestations[k1] = attestations[k2] =>
      \A h1 \in AttHashes, h2 \in AttHashes :
        verify_attestation(attestations[k1], h1).ret
          = verify_attestation(attestations[k2], h2).ret

\* C8: verify_attestation sets verified only when the threshold check
\* succeeds, reports a failed check as a negative verdict without aborting,
\* and changes no other field of the record.
C8_VerifyOnlyFlag == [](C8_Verdict) /\ [][C8_EveryStep]_vars

\* C8 witness: verify_attestation has just returned true and the record is
\* verified, its other fields as submitted at an earlier time.
C8_Witness ==
  /\ last.op = "verify_attestation"
  /\ last.err = Ok
  /\ last.ret
  /\ attestations[last.key].verified
  /\ attestations[last.key].timestamp < clock

\* C9: a record is created unverified by submit_attestation; verified turns
\* true only in a successful verify_attestation on that record returning
\* true; no record is ever removed, and a verified record stays verified.
C9_VerifiedLifecycle ==
  [][/\ \A k \in DOMAIN attestations :
          /\ k \in DOMAIN attestations'
          /\ attestations[k].verified => attestations'[k].verified
          /\ (~attestations[k].verified /\ attestations'[k].verified) =>
               /\ last'.op = "verify_attestation"
               /\ last'.key = k
               /\ last'.err = Ok
               /\ last'.ret
     /\ \A k \in DOMAIN attestations' :
          k \notin DOMAIN attestations =>
            /\ ~attestations'[k].verified
            /\ last'.op = "submit_attestation"
            /\ last'.key = k
            /\ last'.err = Ok]_vars

\* C9 witness: a submit_attestation for the address of a verified record has
\* just been refused and the record is still verified.
C9_Witness ==
  /\ last.op = "submit_attestation"
  /\ last.err = "AccountAlreadyInUse"
  /\ attestations[last.key].verified

\* C10: every stored record's attestation_hash equals the hash its address
\* was derived from (a submit_attestation whose computed hash differs from it
\* stores nothing).
C10_HashBoundToAddress ==
  \A k \in DOMAIN attestations : attestations[k].attestation_hash = k

\* the three config rules, as the design states them
ConfigRules(c) ==
  /\ c.min_loan_amount <= c.max_loan_amount
  /\ c.max_loan_amount > 0
  /\ c.interest_rate_bps <= MaxBps

C11_Stored == \A p \in DOMAIN pools : ConfigRules(pools[p].config)

C11_EveryCall ==
  \A c \in PoolConfigInputs : ~ConfigRules(c) =>
    /\ \A owner \in Pubkeys \ DOMAIN pools, authority \in Pubkeys :
         InitializePoolOutcome(owner, authority, "mint1", "squad1", c).err
           = "InvalidPoolConfig"
    /\ \A pool \in DOMAIN pools :
         UpdatePoolConfigOutcome(pools[pool].authority, pool, c).err
           = "InvalidPoolConfig"

C11_EveryStep ==
  (last'.op \in {"initialize_pool", "update_pool_config"} /\ last'.err # Ok)
    => pools' = pools

\* C11: every stored pool config satisfies min_loan_amount <= max_loan_amount,
\* max_loan_amount > 0 and interest_rate_bps <= 10000; an initialize_pool or
\* update_pool_config whose config breaks one of the three fails with
\* InvalidPoolConfig, and a failing call leaves every pool as it was (a
\* failing initialize_pool creates none).
C11_PoolConfigValid ==
  [](C11_Stored /\ C11_EveryCall) /\ [][C11_EveryStep]_vars

\* C11 witness: an update_pool_config by the authority of an existing pool has
\* just been refused with InvalidPoolConfig.
C11_Witness ==
  /\ last.op = "update_pool_config"
  /\ last.err = "InvalidPoolConfig"
  /\ last.key \in DOMAIN pools

\* C12 as stated: while a pool's emergency_pause is set, every
\* update_pool_config by its authority is rejected with EmergencyPauseActive,
\* for every new config.
C12_EveryConfigPauseError ==
  \A pool \in DOMAIN pools : pools[pool].config.emergency_pause =>
    \A c \in PoolConfigInputs :
      UpdatePoolConfigOutcome(pools[pool].authority, pool, c).err
        = "EmergencyPauseActive"

C12_EveryCall ==
  \A pool \in DOMAIN pools : pools[pool].config.emergency_pause =>
    \A c \in PoolConfigInputs :
      UpdatePoolConfigOutcome(pools[pool].authority, pool, c).err
        = IF ConfigRules(c) THEN "EmergencyPauseActive" ELSE "InvalidPoolConfig"

C12_EveryStep ==
  \A pool \in DOMAIN pools : pools[pool].config.emergency_pause =>
    /\ pools'[pool].config = pools[pool].config
    /\ (last'.op = "update_pool_config" /\ last'.key = pool) => last'.err # Ok

\* C12 (amended): while a pool's emergency_pause is set, every
\* update_pool_config by its authority is rejected: with EmergencyPauseActive
\* for every new config that passes the three config rules, one that would
\* clear the pause included, and with InvalidPoolConfig for one that breaks
\* them; once the pause is set, by initialize_pool or by update_pool_config,
\* the pool's config never changes again.
C12_PauseIsFinal ==
  [](C12_EveryCall) /\ [][C12_EveryStep]_vars

\* C12 witness: the authority of a paused pool has just been refused an update
\* with EmergencyPauseActive, and a valid config clearing the pause is among
\* the refused ones.
C12_Witness ==
  /\ last.op = "update_pool_config"
  /\ last.err = "EmergencyPauseActive"
  /\ pools[last.key].config.emergency_pause
  /\ \E c \in PoolConfigInputs :
       /\ ConfigRules(c) /\ ~c.emergency_pause
       /\ UpdatePoolConfigOutcome(pools[last.key].authority, last.key, c).err
            = "EmergencyPauseActive"

\* C14: mint_receipt_tokens and burn_receipt_tokens take effect only when the
\* NavUpdate attestation they were given has a record that verify_attestation
\* marked verified.
C14_NavAttestationVerified ==
  [][(last'.op \in {"mint_receipt_tokens", "burn_receipt_tokens"} /\ last'.err = Ok) =>
       \E k \in DOMAIN attestations :
         /\ attestations[k].attestation_hash = last'.attestation
         /\ attestations[k].verified]_vars

\* calls that pass account validation, with an attestation of another type
C15_EveryCall ==
  \A pool \in DOMAIN pools, amount \in DepositInputs, a \in ReceiptAttestations :
    a.attestation_type # "NavUpdate" =>
      /\ \A recipient \in Holders :
           MintReceiptTokensOutcome(pools[pool].authority, pool, recipient, "mint1",
                                    amount, a).err = "InvalidAttestation"
      /\ \A receipt \in DOMAIN receipts :
           BurnReceiptTokensOutcome(pools[pool].authority, receipts[receipt].owner,
                                    pool, receipt, amount, a).err = "InvalidAttestation"

C15_EveryStep ==
  (/\ last'.op \in {"mint_receipt_tokens", "burn_receipt_tokens"}
   /\ last'.err = "InvalidAttestation")
    => (pools' = pools /\ receipts' = receipts)

\* C15: a mint_receipt_tokens or burn_receipt_tokens given an attestation
\* whose type is not NavUpdate fails with InvalidAttestation and leaves the
\* pool's total_deposits and every receipt account as they were, whatever the
\* amount, the holder's balance and the pool's pause flag.
C15_WrongTypeRefused ==
  [](C15_EveryCall) /\ [][C15_EveryStep]_vars

\* C15 witness: on a paused pool a burn by a holder with a balance has just
\* been refused with InvalidAttestation.
C15_Witness ==
  /\ last.op = "burn_receipt_tokens"
  /\ last.err = "InvalidAttestation"
  /\ pools[last.key].config.emergency_pause
  /\ receipts[last.receipt].amount > 0

C16_EveryCall ==
  \A pool \in DOMAIN pools : pools[pool].config.emergency_pause =>
    \A recipient \in Holders, amount \in DepositInputs, a \in ReceiptAttestations :
      a.attestation_type = "NavUpdate" =>
        MintReceiptTokensOutcome(pools[pool].authority, pool, recipient, "mint1",
                                 amount, a).err = "EmergencyPauseActive"

C16_EveryStep ==
  \A receipt \in DOMAIN receipts' :
    pools[receipt[1]].config.emergency_pause =>
      /\ receipt \in DOMAIN receipts
      /\ receipts'[receipt].amount <= receipts[receipt].amount

\* C16: while a pool's emergency_pause is set, a mint_receipt_tokens with a
\* NavUpdate attestation fails with EmergencyPauseActive, and no receipt
\* balance of a paused pool ever increases.
C16_PausedMintRefused ==
  [](C16_EveryCall) /\ [][C16_EveryStep]_vars

\* the amount held at a receipt address, 0 where no account exists
Held(accounts, receipt) ==
  IF receipt \in DOMAIN accounts THEN accounts[receipt].amount ELSE 0

\* calls that pass account validation and the attestation-type check
C18_EveryCall ==
  \A pool \in DOMAIN pools, receipt \in DOMAIN receipts, amount \in DepositInputs,
     a \in ReceiptAttestations :
    (a.attestation_type = "NavUpdate" /\ amount > receipts[receipt].amount) =>
      BurnReceiptTokensOutcome(pools[pool].authority, receipts[receipt].owner, pool,
                               receipt, amount, a).err = "InsufficientFunds"

C18_EveryStep ==
  /\ (last'.op = "burn_receipt_tokens" /\ last'.err = "InsufficientFunds")
       => (pools' = pools /\ receipts' = receipts)
  /\ \A receipt \in DOMAIN receipts' :
       /\ receipts'[receipt].amount \in 0..U64Max
       /\ Held(receipts', receipt) > Held(receipts, receipt) =>
            /\ last'.op = "mint_receipt_tokens" /\ last'.err = Ok
            /\ last'.receipt = receipt
       /\ Held(receipts', receipt) < Held(receipts, receipt) =>
            /\ last'.op = "burn_receipt_tokens" /\ last'.err = Ok
            /\ last'.receipt = receipt

\* C18: a burn_receipt_tokens for more than the receipt account holds fails
\* with InsufficientFunds and changes nothing; a held amount increases only in
\* a successful mint_receipt_tokens and decreases only in a successful
\* burn_receipt_tokens on that account, and always stays within 0 .. u64 max.
C18_BurnWithinBalance ==
  [](C18_EveryCall) /\ [][C18_EveryStep]_vars

\* C18 witness: a holder with a positive balance has just been refused a burn
\* of more than that balance.
C18_Witness ==
  /\ last.op = "burn_receipt_tokens"
  /\ last.err = "InsufficientFunds"
  /\ last.receipt \in DOMAIN receipts
  /\ receipts[last.receipt].amount > 0

C19_EveryCall ==
  \A pool \in DOMAIN pools : ~pools[pool].config.emergency_pause =>
    \A recipient \in Holders, amount \in DepositInputs, a \in ReceiptAttestations :
      (/\ a.attestation_type = "NavUpdate"
       /\ pools[pool].total_deposits + amount > U64Max) =>
        MintReceiptTokensOutcome(pools[pool].authority, pool, recipient, "mint1",
                                 amount, a).err = "InsufficientFunds"

C19_EveryStep ==
  (last'.op = "mint_receipt_tokens" /\ last'.err # Ok)
    => (pools' = pools /\ receipts' = receipts)

\* C19: on a pool that is not paused, a mint_receipt_tokens whose amount takes
\* total_deposits past the u64 maximum fails with InsufficientFunds, whatever
\* total_deposits was before the call, and a failing mint changes nothing.
C19_MintOverflowRefused ==
  [](C19_EveryCall) /\ [][C19_EveryStep]_vars

\* the amounts held in the receipt accounts of a pool, summed over holders
RECURSIVE SumHeld(_, _)
SumHeld(pool, holders) ==
  IF holders = {} THEN 0
  ELSE LET h == CHOOSE x \in holders : TRUE
       IN Held(receipts, ReceiptKey(pool, h)) + SumHeld(pool, holders \ {h})

\* C17: for every pool, total_deposits equals the sum of the amounts held in
\* all receipt accounts of that pool.
C17_DepositsMatchReceipts ==
  \A pool \in DOMAIN pools : pools[pool].total_deposits = SumHeld(pool, Holders)

\* the base value of a redemption, in unbounded integers
BaseValue(token_amount, nav_at_mint) == (token_amount * nav_at_mint) \div NavUnit

\* C20: for all amounts and NAVs the redemption value is returned and is
\* non-decreasing in current_nav for a fixed amount and nav_at_mint, is never
\* below the base value amount * nav_at_mint / 1_000_000 when current_nav <=
\* nav_at_mint, and equals the base value when the two NAVs are equal.
C20_RedemptionValue ==
  last.op = "calculate_redemption_value" =>
    /\ last.err = Ok
    /\ last.current_nav <= last.nav_at_mint =>
         last.value >= BaseValue(last.token_amount, last.nav_at_mint)
    /\ last.current_nav = last.nav_at_mint =>
         last.value = BaseValue(last.token_amount, last.nav_at_mint)
    /\ \A higher \in RedeemNavs : higher >= last.current_nav =>
         LET r == calculate_redemption_value(last.token_amount, last.nav_at_mint, higher)
         IN r.err = Ok /\ r.value >= last.value

\* every gated instruction called on an existing pool by a signer other than
\* the pool's authority, on the records that exist (and, for
\* create_loan_commit, on any loan id)
C13_EveryCall ==
  \A pool \in DOMAIN pools : \A caller \in Pubkeys \ {pools[pool].authority} :
    /\ UpdatePoolConfigOutcome(caller, pool, CrossConfig).err = "UnauthorizedAccess"
    /\ \A d \in GateLoans :
         CreateLoanCommitOutcome(caller, pool, d).err = "UnauthorizedAccess"
    /\ \A loan \in DOMAIN loans, status \in LoanStatus :
         UpdateLoanStatusOutcome(caller, pool, loan, loan, status, NoAttestation).err
           = "UnauthorizedAccess"
    /\ \A recipient \in Holders :
         MintReceiptTokensOutcome(caller, pool, recipient, "mint1", 1, NavAttestation).err
           = "UnauthorizedAccess"
    /\ \A receipt \in DOMAIN receipts :
         BurnReceiptTokensOutcome(caller, receipts[receipt].owner, pool, receipt, 1,
                                  NavAttestation).err = "UnauthorizedAccess"
    /\ \A request \in DOMAIN audits :
         GrantAuditAccessOutcome(caller, pool, request, audits[request].loan_id,
                                 audits[request].auditor_pubkey,
                                 AuditGrantAttestation).err = "UnauthorizedAccess"

\* a burn by the pool's authority with a signer who is not the receipt owner
C13_BurnOwner ==
  \A pool \in DOMAIN pools, receipt \in DOMAIN receipts :
    \A owner \in Pubkeys \ {receipts[receipt].owner} :
    BurnReceiptTokensOutcome(pools[pool].authority, owner, pool, receipt, 1,
                             NavAttestation).err = "UnauthorizedAccess"

C13_EveryStep ==
  last'.err = "UnauthorizedAccess" =>
    /\ pools' = pools /\ loans' = loans /\ receipts' = receipts
    /\ audits' = audits /\ attestations' = attestations

\* C13 as stated: update_pool_config, create_loan_commit, update_loan_status,
\* mint_receipt_tokens, burn_receipt_tokens and grant_audit_access, called by a
\* signer other than the pool's stored authority, fail with UnauthorizedAccess
\* and change no record, whatever the other arguments and the state of the
\* records named; burn_receipt_tokens also fails with UnauthorizedAccess when
\* the signer is not the receipt account's stored owner.
C13_AuthorityGate ==
  [](C13_EveryCall /\ C13_BurnOwner) /\ [][C13_EveryStep]_vars

\* the same calls, with the error each one ends in
C13_EveryCallAmended ==
  \A pool \in DOMAIN pools : \A caller \in Pubkeys \ {pools[pool].authority} :
    /\ UpdatePoolConfigOutcome(caller, pool, CrossConfig).err = "UnauthorizedAccess"
    /\ \A d \in GateLoans :
         CreateLoanCommitOutcome(caller, pool, d).err
           = IF d.loan_id \in DOMAIN loans THEN "AccountAlreadyInUse"
             ELSE "UnauthorizedAccess"
    /\ \A loan \in DOMAIN loans, status \in LoanStatus :
         UpdateLoanStatusOutcome(caller, pool, loan, loan, status, NoAttestation).err
           = "UnauthorizedAccess"
    /\ \A recipient \in Holders :
         MintReceiptTokensOutcome(caller, pool, recipient, "mint1", 1, NavAttestation).err
           = "UnauthorizedAccess"
    /\ \A receipt \in DOMAIN receipts :
         BurnReceiptTokensOutcome(caller, receipts[receipt].owner, pool, receipt, 1,
                                  NavAttestation).err = "UnauthorizedAccess"
    /\ \A request \in DOMAIN audits :
         GrantAuditAccessOutcome(caller, pool, request, audits[request].loan_id,
                                 audits[request].auditor_pubkey,
                                 AuditGrantAttestation).err
           = IF audits[request].status = "Pending" THEN "UnauthorizedAccess"
             ELSE "AuditRequestDenied"

C13_EveryStepAmended ==
  last'.err \in {"UnauthorizedAccess", "AccountAlreadyInUse", "AuditRequestDenied"} =>
    /\ pools' = pools /\ loans' = loans /\ receipts' = receipts
    /\ audits' = audits /\ attestations' = attestations

\* C13 (amended): each of the six gated instructions, called by a signer other
\* than the pool's stored authority, fails and changes no record; it fails
\* with UnauthorizedAccess except where an earlier account check of the same
\* instruction fails first: create_loan_commit for a loan id that already has
\* an account (account already in use) and grant_audit_access on a request
\* that is no longer Pending (AuditRequestDenied).  burn_receipt_tokens also
\* fails with UnauthorizedAccess when the signer is not the receipt account's
\* stored owner.
C13_UnauthorizedFails ==
  [](C13_EveryCallAmended /\ C13_BurnOwner) /\ [][C13_EveryStepAmended]_vars

\* C13 witness: a burn on a receipt account with a balance has just been
\* refused with UnauthorizedAccess, and a loan and an approved audit request
\* exist, so that every gated instruction has a record to be called on.
C13_Witness ==
  /\ last.op = "burn_receipt_tokens"
  /\ last.err = "UnauthorizedAccess"
  /\ receipts[last.receipt].amount > 0
  /\ loans # <<>>
  /\ \E request \in DOMAIN audits : audits[request].status = "Approved"

\* C21: whenever a mint_receipt_tokens of amount A by the pool's authority
\* succeeds, a burn_receipt_tokens of A on the minted state for the same
\* holder succeeds and returns total_deposits and the held amount to their
\* values before the mint.
C21_RoundTrip ==
  \A pool \in DOMAIN pools, recipient \in Holders, amount \in DepositInputs :
    LET key == ReceiptKey(pool, recipient)
        minted == MintReceiptTokensOutcome(pools[pool].authority, pool, recipient,
                                           "mint1", amount, NavAttestation)
        burned == burn_receipt_tokens(minted.pool_account, minted.receipt_token_account,
                                      amount, NavAttestation)
    IN minted.err = Ok =>
         /\ minted.receipt_token_account.owner = recipient
         /\ burned.err = Ok
         /\ burned.pool_account.total_deposits = pools[pool].total_deposits
         /\ burned.receipt_token_account.amount = Held(receipts, key)

\* request_audit at an unused request address
C22_EveryCall ==
  \A auditor_account \in Pubkeys, auditor_pubkey \in Pubkeys, loan_id \in LoanIds,
     legal_order_hash \in LegalOrderHashes :
    AuditKey(loan_id, auditor_account) \notin DOMAIN audits =>
      LET r == RequestAuditOutcome("k2", auditor_account, loan_id, auditor_pubkey,
                                   legal_order_hash)
      IN IF legal_order_hash = ZeroRoot
         THEN r.err = "LegalOrderVerificationFailed"
         ELSE /\ r.err = Ok
              /\ r.audit_request.status = "Pending"
              /\ r.audit_request.granted_at = None
              /\ r.audit_request.loan_id = loan_id
              /\ r.audit_request.auditor_pubkey = auditor_pubkey
              /\ r.audit_request.legal_order_hash = legal_order_hash

C22_Stored == \A request \in DOMAIN audits : audits[request].legal_order_hash # ZeroRoot

C22_EveryStep ==
  (last'.op = "request_audit" /\ last'.err # Ok) => audits' = audits

\* C22: request_audit with an all-zero legal-order hash fails with
\* LegalOrderVerificationFailed and creates no request; with a non-zero hash
\* it succeeds and stores a Pending request with no grant timestamp and the
\* given loan id, auditor and legal-order hash; every stored request has a
\* non-zero legal-order hash.
C22_RequestAudit ==
  [](C22_EveryCall /\ C22_Stored) /\ [][C22_EveryStep]_vars

\* C22 witness: beside a stored request, a request_audit with the all-zero
\* hash has just been refused and its address holds no request.
C22_Witness ==
  /\ last.op = "request_audit"
  /\ last.err = "LegalOrderVerificationFailed"
  /\ last.request \notin DOMAIN audits
  /\ audits # <<>>

\* C23: a request becomes Approved only when the attestation given to
\* grant_audit_access has a record that verify_attestation marked verified.
C23_GrantNeedsVerifiedAttestation ==
  [][(last'.op = "grant_audit_access" /\ last'.err = Ok) =>
       \E k \in DOMAIN attestations :
         /\ attestations[k].attestation_hash = last'.attestation
         /\ attestations[k].verified]_vars

\* grant_audit_access by any signer through any pool on a request that is not
\* Pending
C24_EveryCall ==
  \A request \in DOMAIN audits : audits[request].status # "Pending" =>
    \A pool \in DOMAIN pools, authority \in Pubkeys, loan_id \in LoanIds,
       auditor_pubkey \in Pubkeys, a \in AuditAttestations :
      GrantAuditAccessOutcome(authority, pool, request, loan_id, auditor_pubkey, a).err
        = "AuditRequestDenied"

C24_EveryStep ==
  /\ (last'.op = "grant_audit_access" /\ last'.err = "AuditRequestDenied")
       => audits' = audits
  /\ \A request \in DOMAIN audits :
       audits[request].status # "Pending" => audits'[request] = audits[request]

\* C24: grant_audit_access on a request that is not Pending fails with
\* AuditRequestDenied and leaves the request, its grant timestamp included,
\* unchanged; a request that was granted is never granted again.
C24_GrantedOnce ==
  [](C24_EveryCall) /\ [][C24_EveryStep]_vars

\* C24 witness: after the clock has moved past its grant timestamp, an
\* Approved request has just been refused a second grant.
C24_Witness ==
  /\ last.op = "grant_audit_access"
  /\ last.err = "AuditRequestDenied"
  /\ audits[last.request].status = "Approved"
  /\ audits[last.request].granted_at # Some(clock)

\* grant_audit_access by the pool's authority on a Pending request: the three
\* checks in the order the handler makes them
C25_EveryCall ==
  \A request \in DOMAIN audits : audits[request].status = "Pending" =>
    \A pool \in DOMAIN pools, loan_id \in LoanIds, auditor_pubkey \in Pubkeys,
       a \in AuditAttestations :
      LET r == GrantAuditAccessOutcome(pools[pool].authority, pool, request, loan_id,
                                       auditor_pubkey, a)
      IN IF a.attestation_type # "AuditGrant" THEN r.err = "InvalidAttestation"
         ELSE IF loan_id # audits[request].loan_id THEN r.err = "LoanNotFound"
         ELSE IF auditor_pubkey # audits[request].auditor_pubkey
         THEN r.err = "InvalidAuditor"
         ELSE /\ r.err = Ok
              /\ r.audit_request.status = "Approved"
              /\ r.audit_request.granted_at = Some(clock)

C25_EveryStep ==
  last'.op = "grant_audit_access" =>
    IF last'.err = Ok
    THEN /\ audits[last'.request].status = "Pending"
         /\ audits'[last'.request].status = "Approved"
         /\ audits'[last'.request].granted_at = Some(clock)
    ELSE audits' = audits

\* C25: grant_audit_access by the pool authority on a Pending request fails
\* with InvalidAttestation when the attestation type is not AuditGrant, else
\* with LoanNotFound when the loan id differs from the stored one, else with
\* InvalidAuditor when the auditor differs from the stored one, and the
\* request then stays Pending with no grant timestamp; when all three match,
\* the request becomes Approved and the grant timestamp is recorded.
C25_GrantChecks ==
  [](C25_EveryCall) /\ [][C25_EveryStep]_vars

\* C25 witness: a grant with the right type and loan id but another auditor
\* has just been refused and the request is still Pending without timestamp.
C25_Witness ==
  /\ last.op = "grant_audit_access"
  /\ last.err = "InvalidAuditor"
  /\ audits[last.request].status = "Pending"
  /\ audits[last.request].granted_at = None

\* C27: for all total_deposits and reserved_funds, NAV per token is returned
\* and is 1_000_000 when total_deposits = 0 and otherwise
\* floor((total_deposits + reserved_funds) * 1_000_000 / total_deposits), the
\* sum and the product taken in unbounded integers.
C27_NavFormula ==
  last.op = "calculate_nav_per_token" =>
    /\ last.err = Ok
    /\ last.nav = IF last.total_deposits = 0 THEN NavUnit
                  ELSE ((last.total_deposits + last.reserved_funds) * NavUnit)
                         \div last.total_deposits

\* C30: no step lowers the total_claimed of a receipt account: a successful
\* burn_receipt_tokens raises it or leaves it, and no mint_receipt_tokens
\* lowers it, a mint into an account whose balance is back at zero included.
C30_ClaimedNeverDecreases ==
  [][\A receipt \in DOMAIN receipts :
       receipts'[receipt].total_claimed >= receipts[receipt].total_claimed]_vars

OnlyAt(old, new, key) ==
  /\ DOMAIN old \subseteq DOMAIN new
  /\ DOMAIN new \subseteq DOMAIN old \cup {key}
  /\ \A k \in DOMAIN old : k # key => new[k] = old[k]

\* C28: create_loan_commit and update_loan_status leave every pool as it was
\* and touch no loan but the one they name; mint_receipt_tokens and
\* burn_receipt_tokens change nothing but total_deposits of the pool they name
\* and the receipt account they name; submit_attestation and
\* verify_attestation change nothing but the attestation record they name;
\* request_audit and grant_audit_access change nothing but the audit request
\* they name; no other instruction changes a loan.
C28_Frame ==
  [][/\ last'.op \in {"create_loan_commit", "update_loan_status"} =>
          /\ pools' = pools
          /\ OnlyAt(loans, loans', last'.key)
          /\ receipts' = receipts /\ attestations' = attestations /\ audits' = audits
     /\ last'.op \in {"mint_receipt_tokens", "burn_receipt_tokens"} =>
          /\ DOMAIN pools' = DOMAIN pools
          /\ OnlyAt(pools, pools', last'.key)
          /\ last'.key \in DOMAIN pools =>
               pools'[last'.key] =
                 [pools[last'.key] EXCEPT
                    !.total_deposits = pools'[last'.key].total_deposits]
          /\ OnlyAt(receipts, receipts', last'.receipt)
          /\ loans' = loans /\ attestations' = attestations /\ audits' = audits
     /\ last'.op \in {"submit_attestation", "verify_attestation"} =>
          /\ OnlyAt(attestations, attestations', last'.key)
          /\ pools' = pools /\ loans' = loans /\ receipts' = receipts
          /\ audits' = audits
     /\ last'.op \in {"request_audit", "grant_audit_access"} =>
          /\ OnlyAt(audits, audits', last'.request)
          /\ pools' = pools /\ loans' = loans /\ receipts' = receipts
          /\ attestations' = attestations
     /\ last'.op \notin {"create_loan_commit", "update_loan_status"} => loans' = loans
    ]_vars

\* C28 witness: a mint has just succeeded on one pool while the other pool
\* holds a deposit, all four receipt accounts and both loans exist.
C28_Witness ==
  /\ last.op = "mint_receipt_tokens"
  /\ last.err = Ok
  /\ DOMAIN pools = Pubkeys
  /\ \A p \in Pubkeys : pools[p].total_deposits = 1
  /\ Cardinality(DOMAIN receipts) = 4
  /\ DOMAIN loans = LoanIds

\* C29: a pool that initialize_pool creates has reserved_funds, total_deposits
\* and total_loans zero and the owner, authority, receipt mint and escrow it
\* was given (first conjunct: every call; second: the pool that appears in the
\* ledger is that pool, and appears through initialize_pool only); afterwards
\* a pool is never removed, and nothing of it but config, total_deposits and
\* updated_at ever changes, so the four references stay as given.
C29_EveryCall ==
  \A owner \in Pubkeys, authority \in Pubkeys, receipt_mint \in ReceiptMints,
     escrow \in Escrows, c \in ReceiptConfigs :
    LET r == InitializePoolOutcome(owner, authority, receipt_mint, escrow, c)
    IN r.err = Ok =>
         /\ r.pool_account.reserved_funds = 0
         /\ r.pool_account.total_deposits = 0
         /\ r.pool_account.total_loans = 0
         /\ r.pool_account.owner = owner
         /\ r.pool_account.authority = authority
         /\ r.pool_account.receipt_mint = receipt_mint
         /\ r.pool_account.escrow_squad_address = escrow

C29_EveryStep ==
  /\ \A p \in DOMAIN pools' \ DOMAIN pools :
       /\ last'.op = "initialize_pool" /\ last'.err = Ok /\ last'.key = p
       /\ \E authority \in Pubkeys, receipt_mint \in ReceiptMints, escrow \in Escrows,
             c \in ReceiptConfigs :
            LET r == InitializePoolOutcome(p, authority, receipt_mint, escrow, c)
            IN r.err = Ok /\ pools'[p] = r.pool_account
  /\ \A p \in DOMAIN pools :
       /\ p \in DOMAIN pools'
       /\ pools'[p].owner = pools[p].owner
       /\ pools'[p].authority = pools[p].authority
       /\ pools'[p].receipt_mint = pools[p].receipt_mint
       /\ pools'[p].escrow_squad_address = pools[p].escrow_squad_address
       /\ pools'[p] = [pools[p] EXCEPT !.config = pools'[p].config,
                                       !.total_deposits = pools'[p].total_deposits,
                                       !.updated_at = pools'[p].updated_at]

C29_PoolReferences == [](C29_EveryCall) /\ [][C29_EveryStep]_vars

\* C29 witness: a pool created under an authority other than its owner has
\* since been reconfigured at a later time and holds a deposit, and its
\* authority is still the one given.
C29_Witness ==
  \E p \in DOMAIN pools :
    /\ pools[p].authority # pools[p].owner
    /\ pools[p].receipt_mint = "mint2"
    /\ pools[p].escrow_squad_address = "squad1"
    /\ pools[p].updated_at > pools[p].created_at
    /\ pools[p].config # CrossConfig
    /\ pools[p].total_deposits = 1

\* C31: reserved_funds of every pool is zero, the NAV per token that a mint
\* or burn computes on any pool is 1_000_000, every receipt account has
\* nav_at_mint 1_000_000, and a successful burn returns a redemption value
\* equal to the amount burned.
C31_NavIsUnit ==
  /\ \A pool \in DOMAIN pools :
       /\ pools[pool].reserved_funds = 0
       /\ LET nav_per_token == calculate_nav_per_token(pools[pool])
          IN nav_per_token.err = Ok => nav_per_token.nav = NavUnit
  /\ \A receipt \in DOMAIN receipts : receipts[receipt].nav_at_mint = NavUnit
  /\ \A pool \in DOMAIN pools, receipt \in DOMAIN receipts, amount \in DepositInputs,
        a \in ReceiptAttestations :
       LET r == BurnReceiptTokensOutcome(pools[pool].authority, receipts[receipt].owner,
                                         pool, receipt, amount, a)
       IN r.err = Ok => r.redemption_value = amount

\* a burn on a paused pool, by the pool's authority and the receipt's owner
\* with a NavUpdate attestation and an amount within the balance, against the
\* same burn on the same pool with the pause flag cleared
C32_EveryCall ==
  \A pool \in DOMAIN pools, receipt \in DOMAIN receipts, amount \in DepositInputs,
     a \in ReceiptAttestations :
    (/\ pools[pool].config.emergency_pause
     /\ a.attestation_type = "NavUpdate"
     /\ amount <= receipts[receipt].amount) =>
      LET unpaused == [pools[pool] EXCEPT !.config.emergency_pause = FALSE]
          on_paused == BurnReceiptTokensOutcome(pools[pool].authority,
                                                receipts[receipt].owner, pool, receipt,
                                                amount, a)
          on_unpaused == burn_receipt_tokens(unpaused, receipts[receipt], amount, a)
      IN /\ on_paused.err = on_unpaused.err
         /\ on_paused.err = Ok =>
              /\ on_paused.receipt_token_account = on_unpaused.receipt_token_account
              /\ on_paused.redemption_value = on_unpaused.redemption_value
              /\ on_paused.pool_account.total_deposits
                   = on_unpaused.pool_account.total_deposits
              /\ on_paused.pool_account.total_deposits
                   = pools[pool].total_deposits - amount
              /\ on_paused.pool_account.config = pools[pool].config

C32_EveryStep ==
  \A pool \in DOMAIN pools : pools[pool].config.emergency_pause =>
    pools'[pool].total_deposits <= pools[pool].total_deposits

\* C32: the emergency pause does not gate burn_receipt_tokens: on a paused
\* pool a burn by the authority and the owner with a NavUpdate attestation and
\* an amount within the balance ends as it does on the same pool unpaused,
\* lowering total_deposits by the amount when it succeeds; and no step raises
\* the total_deposits of a paused pool.
C32_BurnIgnoresPause == [](C32_EveryCall) /\ [][C32_EveryStep]_vars

\* C32 witness: a burn has just succeeded on a paused pool whose deposits are
\* all redeemed, the holder's claims standing at the amount burned.
C32_Witness ==
  /\ last.op = "burn_receipt_tokens"
  /\ last.err = Ok
  /\ pools[last.key].config.emergency_pause
  /\ pools[last.key].total_deposits = 0
  /\ receipts[last.receipt].amount = 0
  /\ receipts[last.receipt].total_claimed = 1

\* every loan record is stored at the address of its own loan id, and a
\* create_loan_commit that names the id of an existing loan fails, whoever
\* signs it and whichever pool it is sent to
C33_EveryCall ==
  /\ \A loan \in DOMAIN loans : loans[loan].loan_id = loan
  /\ \A authority \in Pubkeys, pool \in Pubkeys, d \in LoanCommitInputs :
       d.loan_id \in DOMAIN loans =>
         CreateLoanCommitOutcome(authority, pool, d).err # Ok

C33_EveryStep ==
  \A loan \in DOMAIN loans :
    /\ loan \in DOMAIN loans'
    /\ last'.op = "create_loan_commit" => loans'[loan] = loans[loan]
    /\ loans[loan].status # "Pending" => loans'[loan].status # "Pending"

\* C33: a loan id names at most one loan record: create_loan_commit with the
\* id of an existing loan fails and leaves that loan as it was, no loan record
\* is ever removed, and a loan that has left Pending never returns to it.
C33_LoanIdUnique == [](C33_EveryCall) /\ [][C33_EveryStep]_vars

\* C33 witness: a create_loan_commit naming a loan that has reached a
\* terminal status has just been refused, with the other loan still Pending.
C33_Witness ==
  /\ last.op = "create_loan_commit"
  /\ last.err = "AccountAlreadyInUse"
  /\ DOMAIN loans = LoanIds
  /\ loans[last.key].status = "Repaid"
  /\ \E other \in LoanIds : loans[other].status = "Pending"

\* the statuses update_loan_status accepts from a status
Successors(status) == {t \in LoanStatus : ValidTransition(status, t)}

SetMax(S) == CHOOSE x \in S : \A y \in S : y <= x
SetMin(S) == CHOOSE x \in S : \A y \in S : x <= y

\* the number of accepted updates on the longest walk that starts at a
\* status, walks of more than fuel updates cut at fuel: a walk through all
\* the statuses and one more visits a status twice
RECURSIVE LongestWalk(_, _)
LongestWalk(status, fuel) ==
  IF fuel = 0 \/ Successors(status) = {} THEN 0
  ELSE 1 + SetMax({LongestWalk(t, fuel - 1) : t \in Successors(status)})

\* the number of accepted updates on the shortest walk from a status to a
\* terminal status, fuel + 1 where none is reached within fuel updates
RECURSIVE ToTerminal(_, _)
ToTerminal(status, fuel) ==
  IF status \in TerminalStatuses THEN 0
  ELSE IF fuel = 0 \/ Successors(status) = {} THEN fuel + 1
  ELSE 1 + SetMin({ToTerminal(t, fuel - 1) : t \in Successors(status)})

Remaining(status) == LongestWalk(status, Cardinality(LoanStatus))

\* the accepted updates form no cycle and the longest walk from Pending has
\* four of them; in every state, a loan that is not terminal has an update by
\* the pool's authority that succeeds and brings it nearer a terminal status
C34_EveryCall ==
  /\ Remaining("Pending") = 4
  /\ \A status \in LoanStatus : Remaining(status) < Cardinality(LoanStatus)
  /\ \A l \in DOMAIN loans : loans[l].status \notin TerminalStatuses =>
       \E pool \in DOMAIN pools, t \in LoanStatus :
         LET r == UpdateLoanStatusOutcome(pools[pool].authority, pool, l,
                                          loans[l].loan_id, t, NoAttestation)
         IN /\ r.err = Ok
            /\ ToTerminal(r.loan_commit.status, Cardinality(LoanStatus))
                 < ToTerminal(loans[l].status, Cardinality(LoanStatus))

\* a loan starts Pending; its status changes only in a successful
\* update_loan_status that names it, and every such update (a status change or
\* not) uses up one of the updates that remained from its status
C34_EveryStep ==
  /\ \A l \in DOMAIN loans' \ DOMAIN loans : loans'[l].status = "Pending"
  /\ \A l \in DOMAIN loans :
       /\ l \in DOMAIN loans'
       /\ loans'[l].status # loans[l].status =>
            last'.op = "update_loan_status" /\ last'.err = Ok /\ last'.key = l
       /\ (last'.op = "update_loan_status" /\ last'.err = Ok /\ last'.key = l) =>
            Remaining(loans'[l].status) < Remaining(loans[l].status)

\* C34: the loan lifecycle has no cycle and is bounded: a loan starts with
\* four updates remaining (Pending, Approved, Active, Defaulted, Liquidated),
\* each successful update_loan_status lowers the number remaining, so a loan
\* has at most four of them and visits no status twice; and from every status
\* that is not terminal a terminal one can still be reached.
C34_LifecycleBounded == [](C34_EveryCall) /\ [][C34_EveryStep]_vars

\* C34 witness: a loan has just made the fourth update of the longest walk
\* and stands at Liquidated, while the other loan is still on its way.
C34_Witness ==
  /\ last.op = "update_loan_status"
  /\ last.err = Ok
  /\ DOMAIN loans = LoanIds
  /\ loans[last.key].status = "Liquidated"
  /\ \E other \in LoanIds : loans[other].status = "Active"

C35_Stored ==
  \A request \in DOMAIN audits :
    /\ audits[request].status \in {"Pending", "Approved"}
    /\ audits[request].granted_at # None <=> audits[request].status = "Approved"

C35_EveryStep ==
  \A request \in DOMAIN audits :
    /\ request \in DOMAIN audits'
    /\ audits[request].status = "Approved" => audits'[request].status = "Approved"

\* C35: every audit request is Pending or Approved, never Denied or Expired;
\* a request that is Approved stays Approved; and a request carries a grant
\* timestamp exactly when it is Approved.
C35_AuditStatus == [](C35_Stored) /\ [][C35_EveryStep]_vars

\* C35 witness: a grant has just succeeded at a clock value later than the
\* request's creation, while another request is still Pending.
C35_Witness ==
  /\ last.op = "grant_audit_access"
  /\ last.err = Ok
  /\ audits[last.request].status = "Approved"
  /\ audits[last.request].granted_at = Some(clock)
  /\ audits[last.request].created_at < clock
  /\ \E other \in DOMAIN audits :
       audits[other].status = "Pending" /\ audits[other].granted_at = None
====
